---- MODULE Spec2Model ----
(***************************************************************************)
(* A model of the two caches of tst-mark-tabs:                             *)
(*                                                                         *)
(*   TSTCustomStateCache (tree-style-tab/custom-state-cache.js), the cache *)
(*   of the classes ("states") believed to be set on tabs in Tree Style    *)
(*   Tab's sidebar, with its per (tabId, state) operation queue, and       *)
(*                                                                         *)
(*   SessionDataCache (common/session-data-cache.js), the cache of the     *)
(*   monitored session values of every tab.                                *)
(*                                                                         *)
(* JavaScript runs the code of a handler without interruption up to its    *)
(* next await.  An action of this model is one such run: from the call or  *)
(* the resumption of an async function to the next await at which it can   *)
(* be kept waiting (a promise of an unfinished operation, a timer, a reply *)
(* of Tree Style Tab or of the browser).                                   *)
(***************************************************************************)
EXTENDS Integers, Sequences, FiniteSets

\* Bound of the model: the number of _queueOp calls, tab-attached events and
\* calls of the public async methods in one behaviour.
MaxWork == 2

\* The tabs (entry ids) of the model.
Tabs == {1, 2}

\* config.classNames of the modelled cache: the allowed class names.
ClassNames == {"a", "b"}
\* A class name outside the allow-list.
OtherNames == {"x"}
AllNames == ClassNames \cup OtherNames

\* The loop bound of _onTabAttached: attempt < 4.
MaxAttempts == 4

\* Bound of the model: the number of events delivered to a SessionDataCache
\* in one behaviour.
MaxEvents == 2

\* The entry ids that the source of a SessionDataCache knows of.
Entries == {1, 2}

\* config.monitoredKeys of the modelled SessionDataCache (kTAB_DATA_KEY_MARKED),
\* and a key that is not monitored.
MonitoredKeys == {"marked"}
AllKeys == MonitoredKeys \cup {"other"}

\* The values of a session value: a color, a value that is defined and falsy
\* (the empty string), or undefined.
Undef == "undef"
Colors == {"red", "blue"}
FalsyValue == ""
\* The values that getStorageValue resolves with, and the values that the
\* fact-changed events carry.
FetchedValues == {"red", FalsyValue, Undef}
EventValues == {"blue", FalsyValue, Undef}

\* "if (value)".
Truthy(v) == v \notin {FalsyValue, Undef}

VARIABLES
    \* ---- TSTCustomStateCache
    isDisposed,     \* this._disposables.isDisposed
    classNames,     \* this._classNames: a set of names, or {} for null (any name)
    anyName,        \* TRUE when this._classNames is null
    statesCaches,   \* the keys of this._statesCaches
    cache,          \* cache[state][tabId]: this._statesCaches[state].cache[tabId]
    opsTail,        \* opsTail[state][tabId]: this._statesCaches[state].ops[tabId] (0: none)
    ops,            \* the calls of _queueOp so far, in the order they were made
    attach,         \* the run of _onTabAttached
    nAttach,        \* tab-attached events delivered so far
    call,           \* the run of a public async method other than set
    nCalls,         \* such calls made so far
    forceTail,      \* forceTail[state][tabId]: the cache.ops[tabId] that a
                    \* getAfterChanges of forceNotifyTST waits for
    forceSnap,      \* the cache objects as dispose left them
    \* ---- the browser and Tree Style Tab (the mirror)
    tabIds,         \* the ids of the browser's tabs
    tst,            \* tst[tabId]: the states the tab carries in Tree Style Tab
    mirrorCalls,    \* number of calls issued to Tree Style Tab so far
    callAfterDispose \* a call was issued to Tree Style Tab by a disposed cache

VARIABLES
    \* ---- SessionDataCache
    sdIsDisposed,   \* this._isDisposed
    storage,        \* storage[entryId]: the data object this._storage[entryId] (0: none)
    objs,           \* the data objects made so far, and for each the promise
                    \* of _createDataForEntry that fetches its values
    fetches,        \* the calls of getStorageValue in flight
    start,          \* the promise this.start, and what _start waits for
    sdQueue,        \* the event handlers at "await this.start", in the order
                    \* they were called
    sdWaiters,      \* the handlers of _onEntryChanged at
                    \* "await this._asyncStorage.get(data)"
    nEvents,        \* events delivered so far
    fetchAfterDispose, \* getStorageValue was called by a disposed cache
    removedEarly,   \* entries whose entry-removed event came before start resolved
    createdSeen,    \* entries for which an entry-created event came
    reader,         \* the run of getDataForEntryId
    handlerThrew,   \* a handler of _onEntryChanged ended with an error
    nNotify,        \* number of data-changed events fired (this._onDataChanged)
    lastNotify      \* the details of the last one

VARIABLES
    \* ---- the synchronizer (tst-custom-state-sync.js)
    TSTSyncEnabled,     \* the module's TSTSyncEnabled
    TSTMarkedState,     \* the module's TSTMarkedState ("" for null)
    syncCache,          \* the module's cache: an index of syncCaches (0: null)
    markChangeListener, \* the module's markChangeListener: the index of the
                        \* cache that its callback captured (0: null)
    currentOp,          \* the start and stop operations that have not settled,
                        \* in the order they were made; each awaits the one
                        \* before it, and the last one is currentOp
    isStarting,         \* the module's isStarting
    syncCaches,         \* the TSTCustomStateCache objects made by start
    nSync,              \* calls of the exported functions and marker-change
                        \* events so far
    nRemovals,          \* mirror calls with present = false issued so far by
                        \* the clear of a stop or by the pre-clear of a start
    nChanges,           \* marker-change events delivered so far
    lastChange          \* the set calls that the last of them resulted in

VARIABLES
    \* ---- the marker data (tst-custom-state-sync.js, second half)
    useSessionStorage,  \* the module's useSessionStorage
    timeToKeepCacheInMilliseconds,  \* the module's variable of that name
    sessionDataCache,   \* the module's sessionDataCache (NoCache: null)
    temporaryCache,     \* the module's temporaryCache (NoCache: null)
    sessionTimeout,     \* the module's sessionTimeout
    tabValue,           \* browser.sessions' value of the tab's key "marked"
    markCall,           \* the running call of createTabMark or removeTabMark
    migrations,         \* setTabValue calls of migrateTempData in flight
    removals,           \* removeTabValue calls of removeSessionCache in flight
    tempEvents,         \* onTabTempValueChanged events that the last step of
                        \* the marker data fired
    sessionEvents,      \* onTabSessionValueChanged events that it fired
    storeWrites,        \* calls of browser.sessions that createTabMark or
                        \* removeTabMark made in it
    lastTemp,           \* newValue of the last onTabTempValueChanged event
    nMarks,             \* calls of the exported functions so far
    removedOff          \* the last settled marker call removed the marker
                        \* while useSessionStorage was false

tstVars == <<isDisposed, classNames, anyName, statesCaches, cache, opsTail, ops,
             attach, nAttach, call, nCalls, forceTail, forceSnap, tabIds, tst,
             mirrorCalls,
             callAfterDispose>>

sdVars == <<sdIsDisposed, storage, objs, fetches, start, sdQueue, sdWaiters,
            nEvents, fetchAfterDispose, removedEarly, createdSeen, reader,
            handlerThrew, nNotify, lastNotify>>

syVars == <<TSTSyncEnabled, TSTMarkedState, syncCache, markChangeListener,
            currentOp, isStarting, syncCaches, nSync, nRemovals, nChanges,
            lastChange>>

mdVars == <<useSessionStorage, timeToKeepCacheInMilliseconds,
            sessionDataCache, temporaryCache, sessionTimeout, tabValue,
            markCall, migrations, removals, tempEvents, sessionEvents,
            storeWrites, lastTemp, nMarks, removedOff>>

vars == <<tstVars, sdVars, syVars, mdVars>>

\* ---- the synchronizer
\* Calls of the exported functions and marker-change events in a behaviour.
MaxSync == 4

\* Object.keys(kCOLORS): three of the nine colors.
kCOLORS == {"blue", "green", "red"}
kTAB_DATA_KEY_MARKED == "marked"
\* The values that setTSTMarkedState is called with: a prefix, a falsy value
\* (stored as null), and a truthy value that is not a string.
NoPrefix == ""
Prefixes == {"p", "q"}
NonString == "#42"
\* newValue of a marker-change event: a color, or null (no marker).
NoMark == "null"

\* lastChange before any marker-change event.
NoChange == [on |-> 0, key |-> "", value |-> NoMark, sets |-> {}]

\* The module's variables as their declarations initialise them.
SyncInit ==
    /\ TSTSyncEnabled = FALSE
    /\ TSTMarkedState = NoPrefix
    /\ syncCache = 0
    /\ markChangeListener = 0
    /\ currentOp = <<>>
    /\ isStarting = FALSE
    /\ syncCaches = <<>>
    /\ nSync = 0
    /\ nRemovals = 0
    /\ nChanges = 0
    /\ lastChange = NoChange

\* ---- the marker data
\* Calls of the exported functions of the marker data in a behaviour.
MaxMarks == 4

\* The colors that markers are made with, a name that is no key of kCOLORS,
\* and the periods that setTimeToKeepCacheInMilliseconds is called with.
MarkColors == {"blue", "red"}
OneColor == {"red"}
UnknownColor == "magenta"
KeepDefault == 20000
KeepPeriods == {-5, KeepDefault}

\* A cache over the one tab of the marker model: whether it was started
\* (its start promise resolved), whether its storage has a data object for
\* the tab, the value of that object's key "marked" (NoMark: no such key),
\* and the change events that its handlers hold until it has started.
NoCache == [live |-> FALSE, started |-> FALSE, has |-> FALSE,
            mark |-> NoMark, pending |-> <<>>]

NoTimeout == [state |-> "none", touched |-> FALSE]
NoMarkCall == [fn |-> "none", pc |-> "done", color |-> NoMark,
               force |-> FALSE, notify |-> TRUE, array |-> FALSE,
               result |-> "none", inner |-> "none", cache |-> "none"]

\* The module's variables as their declarations initialise them; the
\* browser's session store holds no marker.
MdInit ==
    /\ useSessionStorage = FALSE
    /\ timeToKeepCacheInMilliseconds = KeepDefault
    /\ sessionDataCache = NoCache
    /\ temporaryCache = NoCache
    /\ sessionTimeout = NoTimeout
    /\ tabValue = NoMark
    /\ markCall = NoMarkCall
    /\ migrations = <<>>
    /\ removals = 0
    /\ tempEvents = 0
    /\ sessionEvents = 0
    /\ storeWrites = 0
    /\ lastTemp = "never"
    /\ nMarks = 0
    /\ removedOff = FALSE


----------------------------------------------------------------------------
\* cache.cache[tabId] is "true", "false" or Absent (no property).
Absent == "absent"

BoolStr(b) == IF b THEN "true" ELSE "false"

\* Outcomes of a call of notifyTabStateToTST: it resolves to true, resolves
\* to false, or rejects.
Outcomes == {"ack", "nack", "throw"}

NoAttach == [pc |-> "idle", tab |-> 0, attempt |-> 0, states |-> {},
             delay |-> 0]
\* The argument null of a states or tabIds parameter.
NullNames == {"*"}
NullTabs == {0}

\* One affected state of a run of forceNotifyTST: the tabs whose
\* getAfterChanges is awaited (todo) behind which operation (tail), the tabs
\* found to have the state (has), and the two batched calls, each "off",
\* "flying" or settled with an outcome.
NoSub == [pc |-> "none", todo |-> {}, has |-> {}, rem |-> "off", add |-> "off",
          result |-> "none"]
NoCall == [fn |-> "none", pc |-> "idle", result |-> "none", tabs |-> {},
           names |-> {}, remove |-> FALSE, add |-> FALSE, waits |-> {},
           tail |-> [t \in Tabs |-> 0], snap |-> FALSE, str |-> FALSE,
           sub |-> [s \in AllNames |-> NoSub]]

EmptyCache == [s \in AllNames |-> [t \in Tabs |-> Absent]]
EmptyOps == [s \in AllNames |-> [t \in Tabs |-> 0]]

----------------------------------------------------------------------------
\* _getCache without its test of isDisposed: the fault that C9 excludes.
GetCacheIsNull_IgnoresDisposed(state) ==
    ~anyName /\ state \notin classNames

\* _getCache without its test of this._classNames: the fault that C23
\* excludes.
GetCacheIsNull_AllowsAll(state) == isDisposed

\* _getCache(state) is null: the cache is disposed, or the name is not allowed.
\* (The model's names are never empty.)
GetCacheIsNull(state) ==
    isDisposed \/ (~anyName /\ state \notin classNames)

\* get(tabId, state)
Get(tabId, state) ==
    IF GetCacheIsNull(state) THEN FALSE ELSE cache[state][tabId] = "true"

\* getTabStates(tabId)
GetTabStates(tabId) ==
    IF isDisposed THEN {}
    ELSE {s \in statesCaches : cache[s][tabId] = "true"}

\* getAffectedTabIds(state)
GetAffectedTabIds(state) ==
    IF GetCacheIsNull(state) THEN {}
    ELSE {t \in Tabs : cache[state][t] = "true"}

----------------------------------------------------------------------------
\* A cache made by "new TSTCustomStateCache({ classNames })" in a browser
\* with the given tabs.
TSTInitWith(ids, names, any) ==
    /\ tabIds = ids
    /\ classNames = names
    /\ anyName = any
    /\ isDisposed = FALSE
    /\ statesCaches = {}
    /\ cache = EmptyCache
    /\ opsTail = EmptyOps
    /\ ops = <<>>
    /\ attach = NoAttach
    /\ nAttach = 0
    /\ call = NoCall
    /\ nCalls = 0
    /\ forceTail = EmptyOps
    /\ forceSnap = [s \in AllNames |-> [t \in Tabs |-> FALSE]]
    /\ tst = [t \in Tabs |-> {}]
    /\ mirrorCalls = 0
    /\ callAfterDispose = FALSE

TSTInit == TSTInitWith({1}, ClassNames, FALSE)

----------------------------------------------------------------------------
(***************************************************************************)
(* _queueOp.  A call is a record of ops:                                   *)
(*   lastOp   cache.ops[tabId] when the call was made (0: undefined),      *)
(*   pc       "awaitLast": the inner function waits for lastOp;            *)
(*            "calling": the callback waits for notifyTabStateToTST;       *)
(*            "innerDone": the inner promise is resolved and the outer     *)
(*            function waits for it; "settled": _queueOp has returned,     *)
(*   res      what the inner promise resolved to ("pending" before),       *)
(*   val      the variable value, which _queueOp returns,                  *)
(*   threw    outerError is set: _queueOp rejects,                         *)
(*   how      whether the callback ran: "ran", "skipLast" (lastResult was  *)
(*            truthy), "skipDisposed", "refused" (_getCache was null),     *)
(*   out      the callback of set: "short" (belief already as requested)   *)
(*            or the outcome of its call of notifyTabStateToTST,           *)
(*   callSeq  the number of that call among the calls of set for its scope,*)
(*   pre, post  get(tabId, state) when the callback started and ended.     *)
(***************************************************************************)
NewOp(kind, tabId, state, value, default) ==
    [kind |-> kind, tab |-> tabId, state |-> state, value |-> value,
     lastOp |-> 0, pc |-> "awaitLast", res |-> "pending", val |-> default,
     threw |-> FALSE, how |-> "none", out |-> "none", callSeq |-> 0,
     pre |-> FALSE, post |-> FALSE]

OpIds == 1..Len(ops)

\* What a behaviour has used of MaxWork.
Work == Len(ops) + nAttach + nCalls

\* const cache = this._getCache(state): a new entry of _statesCaches is made
\* for an allowed name that has none.
GetCacheCreates(state) ==
    IF GetCacheIsNull(state) THEN statesCaches ELSE statesCaches \cup {state}

\* _queueOp up to "await promise": the record of the call, queued behind
\* cache.ops[tabId], or returning defaultValue when _getCache is null.
QueuedOp(r, tail) ==
    IF GetCacheIsNull(r.state)
    THEN [NewOp(r.kind, r.tab, r.state, r.value, r.default) EXCEPT
              !.pc = "settled", !.how = "refused", !.res = "undef"]
    ELSE [NewOp(r.kind, r.tab, r.state, r.value, r.default) EXCEPT
              !.lastOp = tail[r.state][r.tab]]

\* The effect of a list of _queueOp calls made one after another in one run.
RECURSIVE QueueAll(_, _, _)
QueueAll(reqs, theOps, tail) ==
    IF reqs = <<>> THEN [ops |-> theOps, tail |-> tail]
    ELSE LET r == Head(reqs)
             id == Len(theOps) + 1
             rec == QueuedOp(r, tail)
             newTail == IF GetCacheIsNull(r.state) THEN tail
                        ELSE [tail EXCEPT ![r.state][r.tab] = id]
         IN QueueAll(Tail(reqs), Append(theOps, rec), newTail)

\* The calls of notifyTabStateToTST that the set calls for one (tabId, state)
\* have issued so far.
ScopeCalls(tabId, state) ==
    Cardinality({p \in OpIds : /\ ops[p].tab = tabId /\ ops[p].state = state
                               /\ ops[p].callSeq > 0})

\* An inner function that does not wait for lastOp: the fault that C1 excludes.
LastOpSettled_NoWait(o) == TRUE

\* "const lastResult = await lastOp" can resume: there is no last operation
\* (await undefined), or its promise is resolved.
LastOpSettled(o) ==
    IF ops[o].lastOp = 0 THEN TRUE ELSE ops[ops[o].lastOp].res # "pending"

\* An inner function without "if (lastResult) return lastResult;": the fault
\* that C24 excludes.
LastResultTruthy_Never(o) == FALSE

\* lastResult is truthy.
LastResultTruthy(o) ==
    IF ops[o].lastOp = 0 THEN FALSE ELSE ops[ops[o].lastOp].res = "true"

\* An inner function without "if (this.isDisposed) return;": the fault that
\* C6 excludes.
InnerSeesDisposed_Never == FALSE

\* "if (this.isDisposed) return;" of the inner function.
InnerSeesDisposed == isDisposed

\* A callback of set without "if (value === currentState) return true;": the
\* fault that C4 excludes.
SetShortCircuits_Never(tabId, state, value) == FALSE

\* "if (value === currentState) return true;" of the callback of set.
SetShortCircuits(tabId, state, value) == value = Get(tabId, state)

\* set(tabId, state, value): one call of _queueOp.
Set(tabId, state, value) ==
    /\ Work < MaxWork
    /\ LET r == [kind |-> "set", tab |-> tabId, state |-> state,
                 value |-> value, default |-> "false"]
           q == QueueAll(<<r>>, ops, opsTail)
       IN /\ ops' = q.ops
          /\ opsTail' = q.tail
    /\ statesCaches' = GetCacheCreates(state)
    /\ UNCHANGED <<isDisposed, classNames, anyName, cache, attach, nAttach,
                   call, nCalls, forceTail, forceSnap, tabIds, tst,
                   mirrorCalls, callAfterDispose, sdVars, syVars, mdVars>>

\* A callback of _onTabRemoved that keeps the belief: the fault that C34
\* excludes.
CacheAfterRemoved_Keeps(tabId, state) == cache

\* The callback of _onTabRemoved: "const cache = this._getCache(state);
\* if (cache) delete cache.cache[tabId];".
CacheAfterRemoved(tabId, state) ==
    IF GetCacheIsNull(state) THEN cache
    ELSE [cache EXCEPT ![state][tabId] = Absent]

\* _onTabRemoved(tabId): one _queueOp per key of _statesCaches, each with
\* setOpReturnValue and no defaultValue.  The listener is removed by dispose.
OnTabRemoved(tabId) ==
    /\ ~isDisposed
    /\ statesCaches # {}
    /\ Work + Cardinality(statesCaches) <= MaxWork
    /\ LET RECURSIVE Reqs(_)
           Reqs(S) == IF S = {} THEN <<>>
                      ELSE LET s == CHOOSE x \in S : TRUE
                           IN <<[kind |-> "removed", tab |-> tabId, state |-> s,
                                 value |-> FALSE, default |-> "undef"]>>
                              \o Reqs(S \ {s})
           q == QueueAll(Reqs(statesCaches), ops, opsTail)
       IN /\ ops' = q.ops
          /\ opsTail' = q.tail
    /\ UNCHANGED <<isDisposed, classNames, anyName, statesCaches, cache,
                   attach, nAttach, call, nCalls, forceTail, forceSnap,
                   tabIds, tst, mirrorCalls, callAfterDispose, sdVars,
                   syVars, mdVars>>

\* _queueOp({ tabId, state, callback }) with a callback that throws, and
\* without setOpReturnValue and defaultValue.
QueueThrowing(tabId, state) ==
    /\ Work < MaxWork
    /\ LET r == [kind |-> "throws", tab |-> tabId, state |-> state,
                 value |-> FALSE, default |-> "undef"]
           q == QueueAll(<<r>>, ops, opsTail)
       IN /\ ops' = q.ops
          /\ opsTail' = q.tail
    /\ statesCaches' = GetCacheCreates(state)
    /\ UNCHANGED <<isDisposed, classNames, anyName, cache, attach, nAttach,
                   call, nCalls, forceTail, forceSnap, tabIds, tst,
                   mirrorCalls, callAfterDispose, sdVars, syVars, mdVars>>

\* The inner function of _queueOp resumes from "await lastOp" and runs to its
\* end or to the callback's await of notifyTabStateToTST.
QueueOpResume(o) ==
    /\ ops[o].pc = "awaitLast"
    /\ LastOpSettled(o)
    /\ LET op == ops[o]
           cur == Get(op.tab, op.state)
       IN IF LastResultTruthy(o)
          THEN \* return lastResult
               /\ ops' = [ops EXCEPT ![o].pc = "innerDone", ![o].res = "true",
                                     ![o].how = "skipLast"]
               /\ UNCHANGED <<cache, statesCaches, mirrorCalls, callAfterDispose>>
          ELSE IF InnerSeesDisposed
          THEN /\ ops' = [ops EXCEPT ![o].pc = "innerDone", ![o].res = "undef",
                                     ![o].how = "skipDisposed"]
               /\ UNCHANGED <<cache, statesCaches, mirrorCalls, callAfterDispose>>
          ELSE IF op.kind = "removed"
          THEN \* delete cache.cache[tabId]; return true  (setOpReturnValue)
               /\ cache' = CacheAfterRemoved(op.tab, op.state)
               /\ statesCaches' = GetCacheCreates(op.state)
               /\ ops' = [ops EXCEPT ![o].pc = "innerDone", ![o].res = "true",
                                     ![o].how = "ran", ![o].val = "true"]
               /\ UNCHANGED <<mirrorCalls, callAfterDispose>>
          ELSE IF op.kind = "throws"
          THEN \* catch (error) { outerError = error; }
               /\ ops' = [ops EXCEPT ![o].pc = "innerDone", ![o].res = "undef",
                                     ![o].how = "ran", ![o].threw = TRUE]
               /\ UNCHANGED <<cache, statesCaches, mirrorCalls, callAfterDispose>>
          ELSE IF SetShortCircuits(op.tab, op.state, op.value)
          THEN /\ ops' = [ops EXCEPT ![o].pc = "innerDone", ![o].res = "undef",
                                     ![o].how = "ran", ![o].val = "true",
                                     ![o].out = "short",
                                     ![o].pre = cur, ![o].post = cur]
               /\ statesCaches' = GetCacheCreates(op.state)
               /\ UNCHANGED <<cache, mirrorCalls, callAfterDispose>>
          ELSE \* await notifyTabStateToTST(tabId, state, value)
               /\ ops' = [ops EXCEPT ![o].pc = "calling", ![o].how = "ran",
                                     ![o].pre = cur,
                                     ![o].callSeq = ScopeCalls(op.tab, op.state) + 1]
               /\ mirrorCalls' = mirrorCalls + 1
               /\ callAfterDispose' = (callAfterDispose \/ isDisposed)
               /\ statesCaches' = GetCacheCreates(op.state)
               /\ UNCHANGED cache
    /\ UNCHANGED <<isDisposed, classNames, anyName, opsTail, attach, nAttach,
                   call, nCalls, forceTail, forceSnap, tabIds, tst, sdVars,
                   syVars, mdVars>>

\* What Tree Style Tab holds after a call of notifyTabStateToTST(ids,
\* states, value) with the given outcome: an acknowledged call is applied.
TSTAfterNotify(ids, states, value, outcome) ==
    IF outcome # "ack" THEN tst
    ELSE [t \in Tabs |->
            IF t \notin ids THEN tst[t]
            ELSE IF value THEN tst[t] \cup states ELSE tst[t] \ states]

\* A callback of set that records the value whatever Tree Style Tab
\* answered: the fault that C2 excludes.
CacheAfterNotify_Optimistic(tabId, state, value, outcome) ==
    IF ~GetCacheIsNull(state)
    THEN [cache EXCEPT ![state][tabId] = BoolStr(value)]
    ELSE cache

\* A callback of set that never records the value: the fault that the
\* amended C3 excludes.
CacheAfterNotify_Never(tabId, state, value, outcome) == cache

\* The cache after the callback of set resumed with tstWasNotified:
\* "if (tstWasNotified) { const cache = this._getCache(state);
\*   if (cache) cache.cache[tabId] = value; }"
CacheAfterNotify(tabId, state, value, outcome) ==
    IF outcome = "ack" /\ ~GetCacheIsNull(state)
    THEN [cache EXCEPT ![state][tabId] = BoolStr(value)]
    ELSE cache

\* A callback of set without its try/catch: the fault that C5 excludes.
SetCallbackResult_NoCatch(outcome) ==
    IF outcome = "throw" THEN "throw" ELSE BoolStr(outcome = "ack")

\* What the callback of set returns for an outcome: tstWasNotified, or false
\* from the catch block ("throw" would be an error that leaves the callback).
SetCallbackResult(outcome) ==
    IF outcome = "ack" THEN "true" ELSE "false"

\* notifyTabStateToTST settles and the callback of set, then the inner
\* function, run to their ends.
SetNotifyReturns(o, outcome) ==
    /\ ops[o].pc = "calling"
    /\ LET op == ops[o]
       IN /\ cache' = CacheAfterNotify(op.tab, op.state, op.value, outcome)
          /\ statesCaches' = IF outcome = "ack" THEN GetCacheCreates(op.state)
                             ELSE statesCaches
          /\ tst' = TSTAfterNotify({op.tab}, {op.state}, op.value, outcome)
          /\ ops' = [ops EXCEPT ![o].pc = "innerDone", ![o].res = "undef",
                                ![o].val = IF SetCallbackResult(outcome) = "throw"
                                           THEN op.val
                                           ELSE SetCallbackResult(outcome),
                                ![o].threw = (SetCallbackResult(outcome) = "throw"),
                                ![o].out = outcome,
                                ![o].post = (IF GetCacheIsNull(op.state) THEN FALSE
                                             ELSE cache'[op.state][op.tab] = "true")]
    /\ UNCHANGED <<isDisposed, classNames, anyName, opsTail, attach, nAttach,
                   call, nCalls, forceTail, forceSnap, tabIds, mirrorCalls,
                   callAfterDispose, sdVars, syVars, mdVars>>

\* A _queueOp that leaves its promise in cache.ops: the fault that C25
\* excludes.
QueueOpSettle_KeepsEntry(o) ==
    /\ ops[o].pc = "innerDone"
    /\ ops' = [ops EXCEPT ![o].pc = "settled"]
    /\ UNCHANGED <<isDisposed, classNames, anyName, statesCaches, cache,
                   opsTail, attach, nAttach, call, nCalls, forceTail,
                   forceSnap, tabIds, tst, mirrorCalls, callAfterDispose,
                   sdVars, syVars, mdVars>>

\* _queueOp resumes from "await promise": it removes its promise from
\* cache.ops when it is still the last one, and returns value, or throws
\* outerError (ops[o].threw).
QueueOpSettle(o) ==
    /\ ops[o].pc = "innerDone"
    /\ ops' = [ops EXCEPT ![o].pc = "settled"]
    /\ opsTail' = IF opsTail[ops[o].state][ops[o].tab] = o
                  THEN [opsTail EXCEPT ![ops[o].state][ops[o].tab] = 0]
                  ELSE opsTail
    /\ UNCHANGED <<isDisposed, classNames, anyName, statesCaches, cache,
                   attach, nAttach, call, nCalls, forceTail, forceSnap,
                   tabIds, tst, mirrorCalls, callAfterDispose, sdVars,
                   syVars, mdVars>>

\* dispose(): the listeners are removed and _statesCaches is a new, empty
\* object.  The objects it held are reachable only from the _queueOp calls
\* that captured them, which do no more than delete their own promise from
\* them, so the model drops them with the rest.
Dispose ==
    /\ ~isDisposed
    /\ isDisposed' = TRUE
    /\ statesCaches' = {}
    /\ cache' = EmptyCache
    /\ opsTail' = EmptyOps
    /\ call' = IF call.fn = "getAfterChanges" /\ call.pc = "awaitOps"
               THEN [call EXCEPT !.snap =
                        \E t \in call.tabs, s \in call.names : cache[s][t] = "true"]
               ELSE call
    /\ forceSnap' = [s \in AllNames |-> [t \in Tabs |->
                        /\ call.fn = "force" /\ call.pc = "states"
                        /\ call.sub[s].pc = "reading" /\ t \in call.sub[s].todo
                        /\ cache[s][t] = "true"]]
    /\ UNCHANGED <<classNames, anyName, ops, attach, nAttach, nCalls,
                   forceTail, tabIds, tst, mirrorCalls, callAfterDispose,
                   sdVars, syVars, mdVars>>

----------------------------------------------------------------------------
(***************************************************************************)
(* _onTabAttached.  attach.pc is "delay" at "await delay(...)", "calling"  *)
(* at "await notifyTabStateToTST(tabId, states, true)", "done" after the   *)
(* handler returned.                                                       *)
(***************************************************************************)
\* A handler without "if (states.length === 0) return;": the fault that C22
\* excludes.
AttachHasNothing_Never(tabId) == FALSE

\* "states = this.getTabStates(tabId); if (states.length === 0) return;"
AttachHasNothing(tabId) == GetTabStates(tabId) = {}

\* A loop that makes one attempt more: the fault that C21 excludes.
AttachLoops_OneMore(attempt) == attempt < MaxAttempts + 1

\* "attempt < 4" after attempt++.
AttachLoops(attempt) == attempt < MaxAttempts

\* The milliseconds of "await delay(250 * (attempt + 1))".
DelayStep == 250
AttachDelay(attempt) == DelayStep * (attempt + 1)

\* The tab-attached event is delivered; the listener is removed by dispose.
OnTabAttached(tabId) ==
    /\ ~isDisposed
    /\ attach.pc \in {"idle", "done"}
    /\ Work < MaxWork
    /\ nAttach' = nAttach + 1
    /\ attach' = IF AttachHasNothing(tabId)
                 THEN [NoAttach EXCEPT !.pc = "done", !.tab = tabId]
                 ELSE [NoAttach EXCEPT !.pc = "delay", !.tab = tabId,
                                       !.delay = AttachDelay(0)]
    /\ UNCHANGED <<isDisposed, classNames, anyName, statesCaches, cache,
                   opsTail, ops, call, nCalls, forceTail, forceSnap, tabIds,
                   tst, mirrorCalls, callAfterDispose, sdVars, syVars, mdVars>>

\* delay(250 * (attempt + 1)) elapsed.
AttachDelayElapsed ==
    /\ attach.pc = "delay"
    /\ IF AttachHasNothing(attach.tab)
       THEN /\ attach' = [attach EXCEPT !.pc = "done"]
            /\ UNCHANGED <<mirrorCalls, callAfterDispose>>
       ELSE /\ attach' = [attach EXCEPT !.pc = "calling",
                                        !.states = GetTabStates(attach.tab)]
            /\ mirrorCalls' = mirrorCalls + 1
            /\ callAfterDispose' = (callAfterDispose \/ isDisposed)
    /\ UNCHANGED <<isDisposed, classNames, anyName, statesCaches, cache,
                   opsTail, ops, nAttach, call, nCalls, forceTail, forceSnap,
                   tabIds, tst, sdVars, syVars, mdVars>>

\* notifyTabStateToTST settles: a rejection ends the handler in its catch
\* block, anything else starts the next attempt.
AttachNotifyReturns(outcome) ==
    /\ attach.pc = "calling"
    /\ tst' = TSTAfterNotify({attach.tab}, attach.states, TRUE, outcome)
    /\ attach' = IF outcome # "throw" /\ AttachLoops(attach.attempt + 1)
                 THEN [attach EXCEPT !.pc = "delay", !.attempt = attach.attempt + 1,
                                     !.delay = AttachDelay(attach.attempt + 1)]
                 ELSE [attach EXCEPT !.pc = "done",
                          !.attempt = IF outcome = "throw" THEN attach.attempt
                                      ELSE attach.attempt + 1]
    /\ UNCHANGED <<isDisposed, classNames, anyName, statesCaches, cache,
                   opsTail, ops, nAttach, call, nCalls, forceTail, forceSnap,
                   tabIds, mirrorCalls, callAfterDispose, sdVars, syVars,
                   mdVars>>

\* _onStateChanged({tabId, className, value, apply: false}): the state is
\* recorded as already applied.  (With apply it is set(tabId, className,
\* value).)  The listener is removed by dispose.
OnStateChanged(tabId, state, value) ==
    /\ ~isDisposed
    /\ Work < MaxWork
    /\ nCalls' = nCalls + 1
    /\ ~GetCacheIsNull(state)
    /\ cache' = [cache EXCEPT ![state][tabId] = BoolStr(value)]
    /\ statesCaches' = GetCacheCreates(state)
    /\ UNCHANGED <<isDisposed, classNames, anyName, opsTail, ops, attach,
                   nAttach, call, forceTail, forceSnap, tabIds, tst,
                   mirrorCalls, callAfterDispose, sdVars, syVars, mdVars>>

----------------------------------------------------------------------------
(***************************************************************************)
(* The public async methods other than set.  call is the run of one of     *)
(* them: fn its name, pc where it waits, result what its promise settled   *)
(* with ("true", "false", "undef" for undefined, "rejected").              *)
(***************************************************************************)
CallIdle == call.pc \in {"idle", "done"}

Returned(fn, result) == [NoCall EXCEPT !.fn = fn, !.pc = "done", !.result = result]

\* _getAffectedStates(states): NullNames for null.
GetAffectedStates(states) ==
    IF anyName THEN states
    ELSE IF states = NullNames THEN classNames
    ELSE states \cap classNames

\* The tabs of a set in the order of their ids.
RECURSIVE TabSeq(_)
TabSeq(S) ==
    IF S = {} THEN <<>>
    ELSE LET t == CHOOSE x \in S : \A y \in S : x <= y
         IN <<t>> \o TabSeq(S \ {t})

\* The ops that clear(states) queues: set(tabId, state, false) for every
\* entry of every cache.cache that holds true, of the states given.
ClearRequests(states) ==
    LET pairs == {p \in statesCaches \X Tabs :
                    /\ (states = NullNames \/ p[1] \in states)
                    /\ cache[p[1]][p[2]] = "true"}
        RECURSIVE Reqs(_)
        Reqs(S) == IF S = {} THEN <<>>
                   ELSE LET p == CHOOSE x \in S : TRUE
                        IN <<[kind |-> "set", tab |-> p[2], state |-> p[1],
                              value |-> FALSE, default |-> "false"]>>
                           \o Reqs(S \ {p})
    IN Reqs(pairs)

\* clear(states) up to "await Promise.all(ops)".  An array of names is the set
\* of them; a string is the set of its characters, with str set: the model's
\* names are single characters, so that "states.includes(state)" of a string,
\* which tests for a substring, is membership in that set as well.
Clear(states, str) ==
    /\ CallIdle
    /\ LET reqs == IF isDisposed THEN <<>> ELSE ClearRequests(states)
           q == QueueAll(reqs, ops, opsTail)
       IN /\ Work + 1 + Len(reqs) <= MaxWork
          /\ ops' = q.ops
          /\ opsTail' = q.tail
          /\ call' = IF isDisposed THEN Returned("clear", "false")
                     ELSE [NoCall EXCEPT !.fn = "clear", !.pc = "awaitOps",
                              !.names = states, !.str = str,
                              !.waits = (Len(ops) + 1)..Len(q.ops)]
    /\ nCalls' = nCalls + 1
    /\ UNCHANGED <<isDisposed, classNames, anyName, statesCaches, cache,
                   attach, nAttach, forceTail, forceSnap, tabIds, tst,
                   mirrorCalls, callAfterDispose, sdVars, syVars, mdVars>>

\* "(await Promise.all(ops)).every(success => success)" of clear.
ClearReturns ==
    /\ call.fn = "clear" /\ call.pc = "awaitOps"
    /\ \A o \in call.waits : ops[o].pc = "settled"
    /\ call' = [call EXCEPT !.pc = "done",
                   !.result = BoolStr(\A o \in call.waits : ops[o].val = "true")]
    /\ UNCHANGED <<isDisposed, classNames, anyName, statesCaches, cache,
                   opsTail, ops, attach, nAttach, nCalls, forceTail,
                   forceSnap, tabIds, tst, mirrorCalls, callAfterDispose,
                   sdVars, syVars, mdVars>>

\* getAfterChanges(tabId, state) up to "await cache.ops[tabId]".
GetAfterChanges(tabId, state) ==
    /\ CallIdle
    /\ Work < MaxWork
    /\ nCalls' = nCalls + 1
    /\ statesCaches' = GetCacheCreates(state)
    /\ call' = IF GetCacheIsNull(state) THEN Returned("getAfterChanges", "false")
               ELSE [NoCall EXCEPT !.fn = "getAfterChanges", !.pc = "awaitOps",
                        !.tabs = {tabId}, !.names = {state},
                        !.tail = [NoCall.tail EXCEPT ![tabId] = opsTail[state][tabId]]]
    /\ UNCHANGED <<isDisposed, classNames, anyName, cache, opsTail, ops,
                   attach, nAttach, forceTail, forceSnap, tabIds, tst,
                   mirrorCalls, callAfterDispose, sdVars, syVars, mdVars>>

\* A getAfterChanges without "await cache.ops[tabId]": the fault that C40
\* excludes.
TailSettled_NoWait(o) == TRUE

\* The promise that a getAfterChanges waits for is resolved.
TailSettled(o) == IF o = 0 THEN TRUE ELSE ops[o].res # "pending"

\* "return Boolean(cache.cache[tabId])" on the cache object that the call
\* captured: a disposed cache has left that object as it was (call.snap).
GetAfterChangesReturns ==
    /\ call.fn = "getAfterChanges" /\ call.pc = "awaitOps"
    /\ LET t == CHOOSE x \in call.tabs : TRUE
           s == CHOOSE x \in call.names : TRUE
       IN /\ TailSettled(call.tail[t])
          /\ call' = [call EXCEPT !.pc = "done",
                         !.result = BoolStr(IF isDisposed THEN call.snap
                                            ELSE cache[s][t] = "true")]
    /\ UNCHANGED <<isDisposed, classNames, anyName, statesCaches, cache,
                   opsTail, ops, attach, nAttach, nCalls, forceTail,
                   forceSnap, tabIds, tst, mirrorCalls, callAfterDispose,
                   sdVars, syVars, mdVars>>

----------------------------------------------------------------------------
(***************************************************************************)
(* forceNotifyTST(tabIds, {states, remove, add}).  call.pc is "query" at   *)
(* "await browser.tabs.query({})" and "states" while the async function of *)
(* some affected state is running; call.sub[state] is that function:       *)
(* "reading" at "await Promise.all(... getAfterChanges ...)", "calling" at  *)
(* "await Promise.all([notify(false, remove), notify(true, add)])".         *)
(***************************************************************************)
\* "let affectedStates = this._getAffectedStates(states);
\*  if (!affectedStates) affectedStates = Object.keys(this._statesCaches);"
ForceAffectedStates(states) ==
    IF GetAffectedStates(states) = NullNames THEN statesCaches
    ELSE GetAffectedStates(states)

\* The async function of every affected state runs up to its await of the
\* getAfterChanges of every tab.  getAfterChanges returns false at once for
\* a state without cache, and Promise.all still takes a turn.
ForceStarted(c, ids) ==
    [c EXCEPT !.pc = "states", !.tabs = ids,
        !.sub = [s \in AllNames |->
                   IF s \in c.names
                   THEN [NoSub EXCEPT !.pc = "reading",
                            !.todo = IF GetCacheIsNull(s) THEN {} ELSE ids]
                   ELSE NoSub],
        !.tail = [t \in Tabs |-> 0]]

\* forceNotifyTST up to its first await.
ForceNotifyTST(ids, states, remove, add) ==
    /\ CallIdle
    /\ Work < MaxWork
    /\ nCalls' = nCalls + 1
    /\ LET affected == ForceAffectedStates(states)
           c == [NoCall EXCEPT !.fn = "force", !.names = affected,
                    !.remove = remove, !.add = add]
       IN IF isDisposed THEN
              /\ call' = Returned("force", "false")
              /\ UNCHANGED <<statesCaches, forceTail>>
          ELSE IF (~remove /\ ~add) \/ affected = {} THEN
              /\ call' = Returned("force", "undef")
              /\ UNCHANGED <<statesCaches, forceTail>>
          ELSE IF ids = NullTabs THEN
              /\ call' = [c EXCEPT !.pc = "query"]
              /\ UNCHANGED <<statesCaches, forceTail>>
          ELSE
              /\ call' = ForceStarted(c, ids)
              /\ statesCaches' = statesCaches \cup {s \in affected : ~GetCacheIsNull(s)}
              /\ forceTail' = [s \in AllNames |-> [t \in Tabs |->
                                 IF s \in affected /\ t \in ids THEN opsTail[s][t] ELSE 0]]
    /\ UNCHANGED <<isDisposed, classNames, anyName, cache, opsTail, ops,
                   attach, nAttach, forceSnap, tabIds, tst, mirrorCalls,
                   callAfterDispose, sdVars, syVars, mdVars>>

\* browser.tabs.query({}) resolves with the browser's tabs.
ForceQueryReturns ==
    /\ call.fn = "force" /\ call.pc = "query"
    /\ IF isDisposed THEN
           /\ call' = [call EXCEPT !.pc = "done", !.result = "false"]
           /\ UNCHANGED <<statesCaches, forceTail>>
       ELSE
           /\ call' = ForceStarted(call, tabIds)
           /\ statesCaches' = statesCaches \cup {s \in call.names : ~GetCacheIsNull(s)}
           /\ forceTail' = [s \in AllNames |-> [t \in Tabs |->
                              IF s \in call.names /\ t \in tabIds THEN opsTail[s][t] ELSE 0]]
    /\ UNCHANGED <<isDisposed, classNames, anyName, cache, opsTail, ops,
                   attach, nAttach, nCalls, forceSnap, tabIds, tst,
                   mirrorCalls, callAfterDispose, sdVars, syVars, mdVars>>

\* One getAfterChanges(tabId, affectedState) of forceNotifyTST returns.
ForceGetReturns(state, tabId) ==
    /\ call.fn = "force" /\ call.pc = "states"
    /\ call.sub[state].pc = "reading"
    /\ tabId \in call.sub[state].todo
    /\ TailSettled(forceTail[state][tabId])
    /\ LET has == IF isDisposed THEN forceSnap[state][tabId]
                  ELSE cache[state][tabId] = "true"
       IN call' = [call EXCEPT
                     !.sub[state].todo = @ \ {tabId},
                     !.sub[state].has = IF has THEN @ \cup {tabId} ELSE @]
    /\ UNCHANGED <<isDisposed, classNames, anyName, statesCaches, cache,
                   opsTail, ops, attach, nAttach, nCalls, forceTail,
                   forceSnap, tabIds, tst, mirrorCalls, callAfterDispose,
                   sdVars, syVars, mdVars>>

\* The result of forceNotifyTST once the function of one more affected state
\* has ended: a rejection rejects it, and it resolves when all have ended.
ForceAfterSub(c) ==
    IF c.pc = "done" THEN c
    ELSE IF \E s \in c.names : c.sub[s].result = "rejected"
    THEN [c EXCEPT !.pc = "done", !.result = "rejected"]
    ELSE IF \A s \in c.names : c.sub[s].pc = "done"
    THEN [c EXCEPT !.pc = "done",
             !.result = BoolStr(\A s \in c.names : c.sub[s].result = "true")]
    ELSE c

\* "if (this.isDisposed) return false;" after the getAfterChanges of one
\* affected state.
ForceSeesDisposed == isDisposed

\* A forceNotifyTST that makes a batched call only for a side that has a tab:
\* the fault that C18 excludes.
ForceNotifies_SkipsEmptySide(state) ==
    /\ call.fn = "force"
    /\ call.sub[state].pc = "reading"
    /\ call.sub[state].todo = {}
    /\ LET rem == call.remove /\ call.tabs \ call.sub[state].has # {}
           add == call.add /\ call.sub[state].has # {}
       IN IF ForceSeesDisposed \/ (~rem /\ ~add) THEN
              /\ call' = ForceAfterSub([call EXCEPT !.sub[state].pc = "done",
                            !.sub[state].result = BoolStr(~ForceSeesDisposed)])
              /\ UNCHANGED <<mirrorCalls, callAfterDispose>>
          ELSE
              /\ call' = [call EXCEPT !.sub[state].pc = "calling",
                             !.sub[state].rem = IF rem THEN "flying" ELSE "off",
                             !.sub[state].add = IF add THEN "flying" ELSE "off"]
              /\ mirrorCalls' = mirrorCalls + (IF rem THEN 1 ELSE 0)
                                            + (IF add THEN 1 ELSE 0)
              /\ callAfterDispose' = (callAfterDispose \/ isDisposed)
    /\ UNCHANGED <<isDisposed, classNames, anyName, statesCaches, cache,
                   opsTail, ops, attach, nAttach, nCalls, forceTail,
                   forceSnap, tabIds, tst, sdVars, syVars, mdVars>>

\* All getAfterChanges of one affected state have returned: the batched
\* calls notify(false, remove) and notify(true, add) are issued, each a
\* call of notifyTabStateToTST unless it is not enabled.
ForceNotifies(state) ==
    /\ call.fn = "force"
    /\ call.sub[state].pc = "reading"
    /\ call.sub[state].todo = {}
    /\ IF ForceSeesDisposed THEN
           /\ call' = ForceAfterSub([call EXCEPT !.sub[state].pc = "done",
                                                 !.sub[state].result = "false"])
           /\ UNCHANGED <<mirrorCalls, callAfterDispose>>
       ELSE
           /\ call' = [call EXCEPT !.sub[state].pc = "calling",
                          !.sub[state].rem = IF call.remove THEN "flying" ELSE "off",
                          !.sub[state].add = IF call.add THEN "flying" ELSE "off"]
           /\ mirrorCalls' = mirrorCalls + (IF call.remove THEN 1 ELSE 0)
                                         + (IF call.add THEN 1 ELSE 0)
           /\ callAfterDispose' = (callAfterDispose \/ isDisposed)
    /\ UNCHANGED <<isDisposed, classNames, anyName, statesCaches, cache,
                   opsTail, ops, attach, nAttach, nCalls, forceTail,
                   forceSnap, tabIds, tst, sdVars, syVars, mdVars>>

\* The result of the function of one affected state, given its two calls:
\* Promise.all rejects with the first rejection, and else the result is
\* "every(success => success)" once both have settled.
ForceSubResult(rem, add) ==
    IF "throw" \in {rem, add} THEN "rejected"
    ELSE IF "flying" \in {rem, add} THEN "none"
    ELSE BoolStr({rem, add} \subseteq {"ack", "off"})

\* One batched call of notifyTabStateToTST settles.
ForceNotifyReturns(state, side, outcome) ==
    /\ call.fn = "force"
    /\ call.sub[state].pc \in {"calling", "done"}
    /\ call.sub[state][side] = "flying"
    /\ LET sub == call.sub[state]
           ids == IF side = "add" THEN sub.has ELSE call.tabs \ sub.has
           new == [sub EXCEPT ![side] = outcome]
           res == ForceSubResult(new.rem, new.add)
       IN /\ tst' = TSTAfterNotify(ids, {state}, side = "add", outcome)
          /\ call' = IF sub.pc = "done"
                     THEN [call EXCEPT !.sub[state] = new]
                     ELSE ForceAfterSub([call EXCEPT !.sub[state] =
                              [new EXCEPT !.pc = IF res = "none" THEN "calling" ELSE "done",
                                          !.result = res]])
    /\ UNCHANGED <<isDisposed, classNames, anyName, statesCaches, cache,
                   opsTail, ops, attach, nAttach, nCalls, forceTail,
                   forceSnap, tabIds, mirrorCalls, callAfterDispose, sdVars,
                   syVars, mdVars>>

----------------------------------------------------------------------------
(***************************************************************************)
(* updateFromTST(tabIds, {states, remove, add}).  call.pc is "query" at    *)
(* "await browser.tabs.query({})" and "getTSTTabs" at "await getTSTTabs".  *)
(***************************************************************************)
\* The branch "Known state names" applied to every tab of the cache instead
\* of the tabs of the reply: the fault that C17 excludes.
UpdateKnownNames_EveryTab(reply, ids, affected, remove, add) ==
    [cache |-> [s \in AllNames |-> [t \in Tabs |->
                  IF s \in affected /\ ~GetCacheIsNull(s)
                  THEN IF s \in reply[t]
                       THEN IF add THEN "true" ELSE cache[s][t]
                       ELSE IF remove THEN Absent ELSE cache[s][t]
                  ELSE cache[s][t]]],
     keys |-> statesCaches \cup {s \in affected : ~GetCacheIsNull(s)},
     threw |-> FALSE]

\* The branch "Known state names": every allowed affected state gets a cache,
\* and for every tab of the reply the state is recorded when Tree Style Tab
\* has it and add is set, and deleted when it has not and remove is set.
UpdateKnownNames(reply, ids, affected, remove, add) ==
    [cache |-> [s \in AllNames |-> [t \in Tabs |->
                  IF s \in affected /\ ~GetCacheIsNull(s) /\ t \in ids
                  THEN IF s \in reply[t]
                       THEN IF add THEN "true" ELSE cache[s][t]
                       ELSE IF remove THEN Absent ELSE cache[s][t]
                  ELSE cache[s][t]]],
     keys |-> statesCaches \cup {s \in affected : ~GetCacheIsNull(s)},
     threw |-> FALSE]

\* The branch "Any state names", tab by tab.  originalStates is null when
\* _statesCaches has no key.  With add, statesToRemove is "remove &&
\* originalStates && originalStates.slice()", and "for (const state of
\* statesToRemove)" throws a TypeError when that is false or null; without
\* add, "for (const state of originalStates)" throws when it is null.
RECURSIVE UpdateAnyNames(_, _, _, _, _, _)
UpdateAnyNames(reply, idSeq, original, remove, add, acc) ==
    IF idSeq = <<>> \/ acc.threw THEN acc
    ELSE LET t == Head(idSeq)
             added == [s \in AllNames |->
                         IF s \in reply[t] THEN [acc.cache[s] EXCEPT ![t] = "true"]
                         ELSE acc.cache[s]]
             removed(c) == [s \in AllNames |->
                         IF s \in original /\ s \notin reply[t]
                         THEN [c[s] EXCEPT ![t] = Absent] ELSE c[s]]
             next ==
                IF add THEN
                    IF remove /\ original # {}
                    THEN [cache |-> removed(added), keys |-> acc.keys \cup reply[t],
                          threw |-> FALSE]
                    ELSE [cache |-> added, keys |-> acc.keys \cup reply[t],
                          threw |-> TRUE]
                ELSE
                    IF original # {}
                    THEN [cache |-> removed(acc.cache), keys |-> acc.keys, threw |-> FALSE]
                    ELSE [acc EXCEPT !.threw = TRUE]
         IN UpdateAnyNames(reply, Tail(idSeq), original, remove, add, next)

\* The cache after updateFromTST has applied the reply of getTSTTabs.
UpdateApplied(reply, ids, affected, remove, add) ==
    IF affected # NullNames
    THEN UpdateKnownNames(reply, ids, affected, remove, add)
    ELSE UpdateAnyNames(reply, TabSeq(ids), statesCaches, remove, add,
                        [cache |-> cache, keys |-> statesCaches, threw |-> FALSE])

\* updateFromTST up to its first await: of browser.tabs.query for tabIds
\* null, else of getTSTTabs.
UpdateFromTST(ids, states, remove, add) ==
    /\ CallIdle
    /\ Work < MaxWork
    /\ nCalls' = nCalls + 1
    /\ LET affected == GetAffectedStates(states)
           c == [NoCall EXCEPT !.fn = "update", !.names = affected,
                    !.remove = remove, !.add = add]
       IN IF isDisposed \/ (~remove /\ ~add) \/ affected = {} THEN
              /\ call' = Returned("update", "undef")
              /\ UNCHANGED <<mirrorCalls, callAfterDispose>>
          ELSE IF ids = NullTabs THEN
              /\ call' = [c EXCEPT !.pc = "query"]
              /\ UNCHANGED <<mirrorCalls, callAfterDispose>>
          ELSE
              /\ call' = [c EXCEPT !.pc = "getTSTTabs", !.tabs = ids]
              /\ mirrorCalls' = mirrorCalls + 1
              /\ callAfterDispose' = (callAfterDispose \/ isDisposed)
    /\ UNCHANGED <<isDisposed, classNames, anyName, statesCaches, cache,
                   opsTail, ops, attach, nAttach, forceTail, forceSnap,
                   tabIds, tst, sdVars, syVars, mdVars>>

\* "if (this.isDisposed) return;" after "await browser.tabs.query({})".
UpdateSeesDisposed == isDisposed

\* browser.tabs.query({}) resolves with the browser's tabs.
UpdateQueryReturns ==
    /\ call.fn = "update" /\ call.pc = "query"
    /\ IF UpdateSeesDisposed THEN
           /\ call' = [call EXCEPT !.pc = "done", !.result = "undef"]
           /\ UNCHANGED <<mirrorCalls, callAfterDispose>>
       ELSE
           /\ call' = [call EXCEPT !.pc = "getTSTTabs", !.tabs = tabIds]
           /\ mirrorCalls' = mirrorCalls + 1
           /\ callAfterDispose' = (callAfterDispose \/ isDisposed)
    /\ UNCHANGED <<isDisposed, classNames, anyName, statesCaches, cache,
                   opsTail, ops, attach, nAttach, nCalls, forceTail,
                   forceSnap, tabIds, tst, sdVars, syVars, mdVars>>

\* getTSTTabs settles: it rejects, or resolves with the states that Tree
\* Style Tab holds for the tabs, which are applied to the cache.
UpdateGetTSTTabsReturns(ok) ==
    /\ call.fn = "update" /\ call.pc = "getTSTTabs"
    /\ IF ~ok THEN
           /\ call' = [call EXCEPT !.pc = "done", !.result = "rejected"]
           /\ UNCHANGED <<cache, statesCaches>>
       ELSE IF isDisposed THEN
           /\ call' = [call EXCEPT !.pc = "done", !.result = "undef"]
           /\ UNCHANGED <<cache, statesCaches>>
       ELSE LET u == UpdateApplied(tst, call.tabs, call.names, call.remove, call.add)
            IN /\ cache' = u.cache
               /\ statesCaches' = u.keys
               /\ call' = [call EXCEPT !.pc = "done",
                              !.result = IF u.threw THEN "rejected" ELSE "undef"]
    /\ UNCHANGED <<isDisposed, classNames, anyName, opsTail, ops, attach,
                   nAttach, nCalls, forceTail, forceSnap, tabIds, tst,
                   mirrorCalls, callAfterDispose, sdVars, syVars, mdVars>>

----------------------------------------------------------------------------
(***************************************************************************)
(* SessionDataCache, made with getEntryIds, getStorageValue and the three  *)
(* events, with or without an initialStorage.                              *)
(*                                                                         *)
(* A data object is a record of objs: facts its properties, hydr the       *)
(* promise that _createDataForEntry made for it ("pending", "resolved",    *)
(* "rejected"), left the keys whose getStorageValue has not settled, and   *)
(* inAsync whether this._asyncStorage maps the object to that promise.     *)
(***************************************************************************)
NoFacts == [k \in AllKeys |-> Undef]

NewObj == [facts |-> NoFacts, hydr |-> "pending", left |-> MonitoredKeys,
           inAsync |-> TRUE]

ObjIds == 1..Len(objs)

\* The details of a data-changed event: key and value are Omitted when the
\* property is not set.
Omitted == "omitted"
NoDetails == [entryId |-> 0, key |-> Omitted, value |-> Omitted]

\* _notifyDataChange(entryId, key, value): the details that are fired.
Details(entryId, key, value) ==
    [entryId |-> entryId,
     key |-> key,
     value |-> IF Truthy(value) THEN value ELSE Omitted]

\* A run of getDataForEntryId(entry): pc is "awaitStart" at "await
\* this.start", "awaitData" at "await this._asyncStorage.get(data)" and
\* "done" after it returned; obj is the data object it read from _storage,
\* awaits whether _asyncStorage held a promise for it; result is "null",
\* "data" (it resolved with obj) or "rejected"; known, started and settled
\* are what held when it returned: the entry had a data object, this.start
\* was resolved, and no getStorageValue of obj was still in flight.
NoReader == [pc |-> "idle", entry |-> 0, obj |-> 0, awaits |-> FALSE,
             result |-> "none", known |-> FALSE, started |-> FALSE,
             settled |-> FALSE]

\* config.initialStorage: null, or an object that holds for entry 1 a data
\* object with a value of the monitored key.  Its data objects have no
\* promise in _asyncStorage.
InitialObj == [facts |-> [NoFacts EXCEPT !["marked"] = "red"], hydr |-> "none",
               left |-> {}, inAsync |-> FALSE]

SDInit ==
    /\ sdIsDisposed = FALSE
    /\ \/ /\ storage = [e \in Entries |-> 0]
          /\ objs = <<>>
       \/ /\ storage = [e \in Entries |-> IF e = 1 THEN 1 ELSE 0]
          /\ objs = <<InitialObj>>
    /\ fetches = {}
    /\ start = [pc |-> "listing", result |-> "none", waits |-> {},
                listed |-> FALSE]
    /\ sdQueue = <<>>
    /\ sdWaiters = {}
    /\ nEvents = 0
    /\ fetchAfterDispose = FALSE
    /\ removedEarly = {}
    /\ createdSeen = {}
    /\ reader = NoReader
    /\ handlerThrew = FALSE
    /\ nNotify = 0
    /\ lastNotify = NoDetails

\* _createDataForEntry({ entryId, data }) for a list of entries, one after
\* another: data is the object given (this._storage[entryId] at bootstrap)
\* or a new one; it is stored in this._storage, getStorageValue is called
\* for every monitored key, and the promise is put in this._asyncStorage.
RECURSIVE CreateDataForEntries(_, _, _)
CreateDataForEntries(ids, preserve, acc) ==
    IF ids = <<>> THEN acc
    ELSE LET e == Head(ids)
             reuse == preserve /\ acc.storage[e] # 0
             o == IF reuse THEN acc.storage[e] ELSE Len(acc.objs) + 1
             objs1 == IF reuse
                      THEN [acc.objs EXCEPT ![o].hydr = "pending",
                                            ![o].left = MonitoredKeys,
                                            ![o].inAsync = TRUE]
                      ELSE Append(acc.objs, NewObj)
         IN CreateDataForEntries(Tail(ids), preserve,
                [storage |-> [acc.storage EXCEPT ![e] = o],
                 objs |-> objs1,
                 fetches |-> acc.fetches \cup
                                {[obj |-> o, entry |-> e, key |-> k] : k \in MonitoredKeys},
                 made |-> acc.made \cup {o}])

\* A _start without its try/catch: the fault that C13 excludes.
StartReturns_NoCatch(failed) == IF failed THEN "rejected" ELSE "true"

\* What _start returns: true at the end of the try block, false after the
\* catch block.
StartReturns(failed) == IF failed THEN "false" ELSE "true"

\* _start resumes from "await this._getEntryIds()".  A rejection is caught:
\* start resolves to false.
SDEntryIdsReturn(ids, ok) ==
    /\ start.pc = "listing"
    /\ IF ~ok THEN
           /\ start' = [start EXCEPT !.pc = "done", !.result = StartReturns(TRUE)]
           /\ UNCHANGED <<storage, objs, fetches, fetchAfterDispose>>
       ELSE LET c == CreateDataForEntries(TabSeq(ids), TRUE,
                        [storage |-> storage, objs |-> objs, fetches |-> fetches,
                         made |-> {}])
            IN /\ storage' = c.storage
               /\ objs' = c.objs
               /\ fetches' = c.fetches
               /\ start' = [start EXCEPT !.pc = "hydrating", !.waits = c.made,
                                         !.listed = TRUE]
               /\ fetchAfterDispose' = (fetchAfterDispose \/ (sdIsDisposed /\ ids # {}))
    /\ UNCHANGED <<tstVars, sdIsDisposed, sdQueue, sdWaiters, nEvents,
                   removedEarly, createdSeen, reader, handlerThrew, nNotify,
                   lastNotify, syVars, mdVars>>

\* One getStorageValue settles: a value that is not undefined is stored in
\* the data object; the promise of the object rejects with the first
\* rejection and resolves when every key has settled.
SDStorageValueReturns(f, value, ok) ==
    /\ f \in fetches
    /\ fetches' = fetches \ {f}
    /\ LET obj == objs[f.obj]
           facts == IF ok /\ Truthy(value) THEN [obj.facts EXCEPT ![f.key] = value]
                    ELSE obj.facts
           left == obj.left \ {f.key}
           hydr == IF obj.hydr # "pending" THEN obj.hydr
                   ELSE IF ~ok THEN "rejected"
                   ELSE IF left = {} THEN "resolved"
                   ELSE "pending"
       IN objs' = [objs EXCEPT ![f.obj] = [obj EXCEPT !.facts = facts,
                                              !.left = left, !.hydr = hydr]]
    /\ IF ok /\ Truthy(value) /\ ~sdIsDisposed
       THEN /\ nNotify' = nNotify + 1
            /\ lastNotify' = Details(f.entry, f.key, value)
       ELSE UNCHANGED <<nNotify, lastNotify>>
    /\ UNCHANGED <<tstVars, sdIsDisposed, storage, start, sdQueue, sdWaiters,
                   nEvents, fetchAfterDispose, removedEarly, createdSeen,
                   reader, handlerThrew, syVars, mdVars>>

\* _start resumes from "await Promise.all(...)": with true when every promise
\* resolved, and in the catch block, with false, at the first rejection.
SDStartResolves ==
    /\ start.pc = "hydrating"
    /\ \/ \E o \in start.waits : objs[o].hydr = "rejected"
       \/ \A o \in start.waits : objs[o].hydr = "resolved"
    /\ start' = [start EXCEPT !.pc = "done",
                    !.result = StartReturns(\E o \in start.waits :
                                                objs[o].hydr = "rejected")]
    /\ UNCHANGED <<tstVars, sdIsDisposed, storage, objs, fetches, sdQueue,
                   sdWaiters, nEvents, fetchAfterDispose, removedEarly,
                   createdSeen, reader, handlerThrew, nNotify, lastNotify,
                   syVars, mdVars>>

\* An _onEntryChanged without its test of the key: the fault that C14
\* excludes.
IgnoresKey_Never(key) == FALSE

\* "if (!this._monitoredKeys.includes(key)) return;" of _onEntryChanged.
IgnoresKey(key) == key \notin MonitoredKeys

\* An event is delivered and its handler runs up to "await this.start" in
\* _suppressEvent.  dispose removes the listeners.
SDEvent(kind, entryId, key, value) ==
    /\ ~sdIsDisposed
    /\ nEvents < MaxEvents
    /\ nEvents' = nEvents + 1
    /\ sdQueue' = IF kind = "changed" /\ IgnoresKey(key) THEN sdQueue
                  ELSE Append(sdQueue, [kind |-> kind, entry |-> entryId,
                                        key |-> key, value |-> value, obj |-> 0,
                                        awaits |-> FALSE])
    /\ removedEarly' = IF kind = "removed" /\ start.pc # "done"
                       THEN removedEarly \cup {entryId} ELSE removedEarly
    /\ createdSeen' = IF kind = "created" THEN createdSeen \cup {entryId}
                      ELSE createdSeen
    /\ UNCHANGED <<tstVars, sdIsDisposed, storage, objs, fetches, start,
                   sdWaiters, fetchAfterDispose, reader, handlerThrew,
                   nNotify, lastNotify, syVars, mdVars>>

\* _suppressEvent after "await this.start".
SuppressEvent == sdIsDisposed

\* The handler that has waited longest for this.start resumes.
SDHandlerResumes ==
    /\ start.pc = "done"
    /\ sdQueue # <<>>
    /\ sdQueue' = Tail(sdQueue)
    /\ LET h == Head(sdQueue)
           o == storage[h.entry]
       IN IF SuppressEvent THEN
              UNCHANGED <<storage, objs, fetches, sdWaiters, fetchAfterDispose,
                          nNotify, lastNotify>>
          ELSE IF h.kind = "created" THEN
              LET c == CreateDataForEntries(<<h.entry>>, FALSE,
                          [storage |-> storage, objs |-> objs, fetches |-> fetches,
                           made |-> {}])
              IN /\ storage' = c.storage
                 /\ objs' = c.objs
                 /\ fetches' = c.fetches
                 /\ UNCHANGED <<sdWaiters, fetchAfterDispose, nNotify, lastNotify>>
          ELSE IF h.kind = "removed" THEN
              /\ storage' = [storage EXCEPT ![h.entry] = 0]
              /\ objs' = IF o = 0 THEN objs ELSE [objs EXCEPT ![o].inAsync = FALSE]
              /\ IF o = 0 THEN UNCHANGED <<nNotify, lastNotify>>
                 ELSE /\ nNotify' = nNotify + 1
                      /\ lastNotify' = [NoDetails EXCEPT !.entryId = h.entry]
              /\ UNCHANGED <<fetches, sdWaiters, fetchAfterDispose>>
          ELSE \* changed: "await this._asyncStorage.get(data)"
              /\ sdWaiters' = IF o = 0 THEN sdWaiters
                              ELSE sdWaiters \cup {[h EXCEPT !.obj = o,
                                                   !.awaits = objs[o].inAsync]}
              /\ UNCHANGED <<storage, objs, fetches, fetchAfterDispose,
                             nNotify, lastNotify>>
    /\ UNCHANGED <<tstVars, sdIsDisposed, start, nEvents, removedEarly,
                   createdSeen, reader, handlerThrew, syVars, mdVars>>

\* _onEntryChanged resumes from "await this._asyncStorage.get(data)": the
\* rejection of the promise is thrown, and else the value is stored in the
\* data object, or the key deleted from it.
SDChangedApplies(w) ==
    /\ w \in sdWaiters
    /\ ~w.awaits \/ objs[w.obj].hydr # "pending"
    /\ sdWaiters' = sdWaiters \ {w}
    /\ IF w.awaits /\ objs[w.obj].hydr = "rejected"
       THEN /\ handlerThrew' = TRUE
            /\ UNCHANGED <<objs, nNotify, lastNotify>>
       ELSE /\ objs' = [objs EXCEPT ![w.obj].facts[w.key] = w.value]
            /\ IF sdIsDisposed THEN UNCHANGED <<nNotify, lastNotify>>
               ELSE /\ nNotify' = nNotify + 1
                    /\ lastNotify' = Details(w.entry, w.key, w.value)
            /\ UNCHANGED handlerThrew
    /\ UNCHANGED <<tstVars, sdIsDisposed, storage, fetches, start, sdQueue,
                   nEvents, fetchAfterDispose, removedEarly, createdSeen,
                   reader, syVars, mdVars>>

\* dispose(): the listeners are removed, and _storage and _asyncStorage are
\* new and empty.
SDDispose ==
    /\ ~sdIsDisposed
    /\ sdIsDisposed' = TRUE
    /\ storage' = [e \in Entries |-> 0]
    /\ objs' = [o \in ObjIds |-> [objs[o] EXCEPT !.inAsync = FALSE]]
    /\ UNCHANGED <<tstVars, fetches, start, sdQueue, sdWaiters, nEvents,
                   fetchAfterDispose, removedEarly, createdSeen, reader,
                   handlerThrew, nNotify, lastNotify, syVars, mdVars>>

\* A reader that does not wait for the promise of the data object: the
\* fault that C11 excludes.
ReaderDataReady_NoWait(r) == TRUE

\* "await this._asyncStorage.get(data)" of getDataForEntryId can resume:
\* there was no promise, or it is settled.
ReaderDataReady(r) == ~r.awaits \/ objs[r.obj].hydr # "pending"

\* getDataForEntryId(entryId) up to "await this.start".
SDGetDataForEntryId(entryId) ==
    /\ reader.pc \in {"idle", "done"}
    /\ nEvents < MaxEvents
    /\ nEvents' = nEvents + 1
    /\ reader' = [NoReader EXCEPT !.pc = "awaitStart", !.entry = entryId]
    /\ UNCHANGED <<tstVars, sdIsDisposed, storage, objs, fetches, start,
                   sdQueue, sdWaiters, fetchAfterDispose, removedEarly,
                   createdSeen, handlerThrew, nNotify, lastNotify, syVars,
                   mdVars>>

\* getDataForEntryId resumes from "await this.start": it returns null when
\* _storage has no data for the entry, and else waits for the promise that
\* _asyncStorage holds for the data.
SDReaderAfterStart ==
    /\ reader.pc = "awaitStart"
    /\ start.pc = "done"
    /\ LET o == storage[reader.entry]
       IN reader' = IF o = 0
                    THEN [reader EXCEPT !.pc = "done", !.result = "null",
                                        !.started = TRUE]
                    ELSE [reader EXCEPT !.pc = "awaitData", !.obj = o,
                                        !.awaits = objs[o].inAsync]
    /\ UNCHANGED <<tstVars, sdIsDisposed, storage, objs, fetches, start,
                   sdQueue, sdWaiters, nEvents, fetchAfterDispose,
                   removedEarly, createdSeen, handlerThrew, nNotify,
                   lastNotify, syVars, mdVars>>

\* getDataForEntryId resumes from "await this._asyncStorage.get(data)": the
\* rejection of the promise is thrown, and else the data is returned.
SDReaderReturns ==
    /\ reader.pc = "awaitData"
    /\ ReaderDataReady(reader)
    /\ reader' = [reader EXCEPT !.pc = "done",
                     !.result = IF reader.awaits /\ objs[reader.obj].hydr = "rejected"
                                THEN "rejected" ELSE "data",
                     !.known = TRUE,
                     !.started = (start.pc = "done"),
                     !.settled = (objs[reader.obj].left = {})]
    /\ UNCHANGED <<tstVars, sdIsDisposed, storage, objs, fetches, start,
                   sdQueue, sdWaiters, nEvents, fetchAfterDispose,
                   removedEarly, createdSeen, handlerThrew, nNotify,
                   lastNotify, syVars, mdVars>>

----------------------------------------------------------------------------
Init == TSTInit /\ SDInit /\ SyncInit /\ MdInit

TSTNext ==
    \/ \E t \in tabIds, s \in AllNames, v \in BOOLEAN : Set(t, s, v)
    \/ \E t \in tabIds : OnTabRemoved(t)
    \/ \E o \in OpIds : QueueOpResume(o)
    \/ \E o \in OpIds, r \in Outcomes : SetNotifyReturns(o, r)
    \/ \E o \in OpIds : QueueOpSettle(o)
    \/ Dispose
    \/ \E t \in tabIds : OnTabAttached(t)
    \/ AttachDelayElapsed
    \/ \E r \in Outcomes : AttachNotifyReturns(r)
    \/ \E t \in tabIds, s \in AllNames, v \in BOOLEAN : OnStateChanged(t, s, v)
    \/ \E n \in {NullNames, {"a"}} : Clear(n, FALSE)
    \/ ClearReturns
    \/ \E t \in tabIds, s \in AllNames : GetAfterChanges(t, s)
    \/ GetAfterChangesReturns
    \/ \E ids \in {NullTabs, tabIds}, rm \in BOOLEAN, ad \in BOOLEAN :
            ForceNotifyTST(ids, {"a", "x"}, rm, ad)
    \/ ForceQueryReturns
    \/ \E s \in AllNames, t \in Tabs : ForceGetReturns(s, t)
    \/ \E s \in AllNames : ForceNotifies(s)
    \/ \E s \in AllNames, side \in {"rem", "add"}, r \in Outcomes :
            ForceNotifyReturns(s, side, r)
    \/ \E ids \in {NullTabs, tabIds}, rm \in BOOLEAN, ad \in BOOLEAN :
            UpdateFromTST(ids, {"a", "x"}, rm, ad)
    \/ UpdateQueryReturns
    \/ \E ok \in BOOLEAN : UpdateGetTSTTabsReturns(ok)

SDNext ==
    \/ \E ids \in SUBSET Entries, ok \in BOOLEAN : SDEntryIdsReturn(ids, ok)
    \/ \E f \in fetches, v \in FetchedValues, ok \in BOOLEAN :
            SDStorageValueReturns(f, v, ok)
    \/ SDStartResolves
    \/ \E e \in Entries : SDEvent("created", e, "marked", Undef)
    \/ \E e \in Entries : SDEvent("removed", e, "marked", Undef)
    \/ \E e \in Entries, k \in AllKeys, v \in EventValues :
            SDEvent("changed", e, k, v)
    \/ SDHandlerResumes
    \/ \E w \in sdWaiters : SDChangedApplies(w)
    \/ SDDispose
    \/ \E e \in Entries : SDGetDataForEntryId(e)
    \/ SDReaderAfterStart
    \/ SDReaderReturns

\* The TSTCustomStateCache alone (its actions leave the SessionDataCache as
\* it is).
Next == TSTNext

Spec == Init /\ [][Next]_vars

\* The SessionDataCache alone.
NextSDC == SDNext

SpecSDC == Init /\ [][NextSDC]_vars
\* The _queueOp calls alone, with the fairness that JavaScript's job queue
\* gives to a resumable function, and with a Tree Style Tab that answers
\* every call.
QueueNext ==
    \/ \E t \in tabIds, s \in AllNames, v \in BOOLEAN : Set(t, s, v)
    \/ \E t \in tabIds : OnTabRemoved(t)
    \/ \E o \in OpIds : QueueOpResume(o)
    \/ \E o \in OpIds, r \in Outcomes : SetNotifyReturns(o, r)
    \/ \E o \in OpIds : QueueOpSettle(o)
    \/ Dispose

SpecQueue ==
    /\ Init
    /\ [][QueueNext]_vars
    /\ WF_vars(\E o \in OpIds : QueueOpResume(o))
    /\ WF_vars(\E o \in OpIds, r \in Outcomes : SetNotifyReturns(o, r))
    /\ WF_vars(\E o \in OpIds : QueueOpSettle(o))

\* The beliefs of a cache that has been in use, over the names of
\* ClassNames: for every tab, a state is recorded as present (by an earlier
\* set or state-changed event) or has no record.
Beliefs == [ClassNames -> [Tabs -> {"true", Absent}]]

\* What Tree Style Tab holds for the tabs: the states of ClassNames that it
\* or another caller has set.
Mirrors == [Tabs -> SUBSET ClassNames]

\* A cache that has been in use, in a browser with the tabs of Tabs: keys are
\* the names that _getCache has made an entry of _statesCaches for, belief
\* what their cache.cache hold, and no operation is under way.
TSTInUse(names, any, keys, belief, mirror) ==
    /\ tabIds = Tabs
    /\ classNames = names
    /\ anyName = any
    /\ isDisposed = FALSE
    /\ statesCaches = keys
    /\ cache = [s \in AllNames |-> IF s \in keys THEN belief[s]
                                   ELSE [t \in Tabs |-> Absent]]
    /\ opsTail = EmptyOps
    /\ ops = <<>>
    /\ attach = NoAttach
    /\ nAttach = 0
    /\ call = NoCall
    /\ nCalls = 0
    /\ forceTail = EmptyOps
    /\ forceSnap = [s \in AllNames |-> [t \in Tabs |-> FALSE]]
    /\ tst = mirror
    /\ mirrorCalls = 0
    /\ callAfterDispose = FALSE

\* updateFromTST alone, on a cache of any state name or of the names of
\* ClassNames, with a Tree Style Tab that answers getTSTTabs.
UpdateInit ==
    /\ \E any \in BOOLEAN, keys \in SUBSET ClassNames, belief \in Beliefs,
          mirror \in Mirrors :
            TSTInUse(IF any THEN {} ELSE ClassNames, any, keys, belief, mirror)
    /\ SDInit
    /\ SyncInit
    /\ MdInit
    /\ objs = <<>>

UpdateNext ==
    \/ \E ids \in {NullTabs, {1}}, n \in {NullNames, {"a"}},
          rm \in BOOLEAN, ad \in BOOLEAN : UpdateFromTST(ids, n, rm, ad)
    \/ UpdateQueryReturns
    \/ UpdateGetTSTTabsReturns(TRUE)

SpecUpdate == UpdateInit /\ [][UpdateNext]_vars

\* forceNotifyTST and set alone, on a cache of the names of ClassNames that
\* has been in use, every recorded state having been acknowledged by Tree
\* Style Tab: "b" is recorded for tab 2 only, and "a" for any of the tabs.
ForceInit ==
    /\ \E belief \in {b \in Beliefs : b["b"][1] = Absent /\ b["b"][2] = "true"} :
            TSTInUse(ClassNames, FALSE, ClassNames, belief,
                     [t \in Tabs |-> {s \in ClassNames : belief[s][t] = "true"}])
    /\ SDInit
    /\ SyncInit
    /\ MdInit
    /\ objs = <<>>

ForceNext ==
    \/ \E v \in BOOLEAN : Set(1, "a", v)
    \/ \E o \in OpIds : QueueOpResume(o)
    \/ \E o \in OpIds, r \in Outcomes : SetNotifyReturns(o, r)
    \/ \E o \in OpIds : QueueOpSettle(o)
    \/ \E rm \in BOOLEAN, ad \in BOOLEAN : ForceNotifyTST(NullTabs, NullNames, rm, ad)
    \/ \E rm \in BOOLEAN, ad \in BOOLEAN : ForceNotifyTST({1}, {"a"}, rm, ad)
    \/ ForceQueryReturns
    \/ \E s \in ClassNames, t \in Tabs : ForceGetReturns(s, t)
    \/ \E s \in ClassNames : ForceNotifies(s)
    \/ \E s \in ClassNames, side \in {"rem", "add"}, r \in Outcomes :
            ForceNotifyReturns(s, side, r)

SpecForce == ForceInit /\ [][ForceNext]_vars

\* clear and set alone, on a cache that has been in use, of any state name
\* or of the names of ClassNames, every recorded state having been
\* acknowledged by Tree Style Tab.  clear is given null, an array of names, or
\* a string: "a", or "ab" (the characters a and b).
ClearInit ==
    /\ \E any \in BOOLEAN, keys \in SUBSET ClassNames, belief \in Beliefs :
            TSTInUse(IF any THEN {} ELSE ClassNames, any, keys, belief,
                     [t \in Tabs |-> {s \in keys : belief[s][t] = "true"}])
    /\ SDInit
    /\ SyncInit
    /\ MdInit
    /\ objs = <<>>

ClearNext ==
    \/ \E t \in tabIds, s \in ClassNames, v \in BOOLEAN : Set(t, s, v)
    \/ \E o \in OpIds : QueueOpResume(o)
    \/ \E o \in OpIds, r \in Outcomes : SetNotifyReturns(o, r)
    \/ \E o \in OpIds : QueueOpSettle(o)
    \/ \E n \in {NullNames, {"a"}, {"a", "b"}}, str \in BOOLEAN : Clear(n, str)
    \/ ClearReturns

SpecClear == ClearInit /\ [][ClearNext]_vars

\* The handlers of the tab events alone, on a cache of the names of
\* ClassNames that has been in use, with timers that elapse and a Tree Style
\* Tab that settles every call (with any outcome).
AttachInit ==
    /\ \E keys \in SUBSET ClassNames, belief \in Beliefs :
            TSTInUse(ClassNames, FALSE, keys, belief,
                     [t \in Tabs |-> {s \in keys : belief[s][t] = "true"}])
    /\ SDInit
    /\ SyncInit
    /\ MdInit
    /\ objs = <<>>

AttachNext ==
    \/ \E t \in tabIds : OnTabAttached(t)
    \/ AttachDelayElapsed
    \/ \E r \in Outcomes : AttachNotifyReturns(r)
    \/ \E t \in tabIds, s \in ClassNames : OnStateChanged(t, s, FALSE)
    \/ \E t \in tabIds : OnTabRemoved(t)
    \/ \E o \in OpIds : QueueOpResume(o)
    \/ \E o \in OpIds : QueueOpSettle(o)
    \/ Dispose

SpecAttach ==
    /\ AttachInit
    /\ [][AttachNext]_vars
    /\ WF_vars(AttachDelayElapsed)
    /\ WF_vars(\E r \in Outcomes : AttachNotifyReturns(r))

\* The _queueOp calls of set and of the tab-removed handler alone, on a cache
\* of the names of ClassNames that has been in use for the state "a".
RemovedInit ==
    /\ \E belief \in Beliefs :
            TSTInUse(ClassNames, FALSE, {"a"}, belief,
                     [t \in Tabs |-> {s \in {"a"} : belief[s][t] = "true"}])
    /\ SDInit
    /\ SyncInit
    /\ MdInit
    /\ objs = <<>>

RemovedNext ==
    \/ \E t \in tabIds, v \in BOOLEAN : Set(t, "a", v)
    \/ \E t \in tabIds : OnTabRemoved(t)
    \/ \E o \in OpIds : QueueOpResume(o)
    \/ \E o \in OpIds, r \in Outcomes : SetNotifyReturns(o, r)
    \/ \E o \in OpIds : QueueOpSettle(o)
    \/ Dispose

SpecRemoved == RemovedInit /\ [][RemovedNext]_vars

\* set and the tab-attached handler alone, on a cache of the names of
\* ClassNames that has been in use for the state "a" and agrees with Tree
\* Style Tab, which acknowledges every call.
RaceInit ==
    /\ \E belief \in Beliefs :
            TSTInUse(ClassNames, FALSE, {"a"}, belief,
                     [t \in Tabs |-> {s \in {"a"} : belief[s][t] = "true"}])
    /\ SDInit
    /\ SyncInit
    /\ MdInit
    /\ objs = <<>>

RaceNext ==
    \/ \E t \in tabIds, s \in ClassNames, v \in BOOLEAN : Set(t, s, v)
    \/ \E o \in OpIds : QueueOpResume(o)
    \/ \E o \in OpIds : SetNotifyReturns(o, "ack")
    \/ \E o \in OpIds : QueueOpSettle(o)
    \/ \E t \in tabIds : OnTabAttached(t)
    \/ AttachDelayElapsed
    \/ AttachNotifyReturns("ack")

SpecRace == RaceInit /\ [][RaceNext]_vars

\* The cache that a stop of the synchronizer stops.  c.set(entryId,
\* statePrefix + color, ...) of the marker-change listener, which stop()
\* disposes before its async function calls c.clear().
ListenerSet(tabId, state, value) ==
    /\ call.fn = "none"
    /\ Set(tabId, state, value)

\* "await c.clear()" of stop returns and "c.dispose()" follows at once.
StopClearReturns ==
    /\ call.fn = "clear" /\ call.pc = "awaitOps"
    /\ \A o \in call.waits : ops[o].pc = "settled"
    /\ call' = [call EXCEPT !.pc = "done",
                   !.result = BoolStr(\A o \in call.waits : ops[o].val = "true")]
    /\ isDisposed' = TRUE
    /\ statesCaches' = {}
    /\ cache' = EmptyCache
    /\ opsTail' = EmptyOps
    /\ UNCHANGED <<classNames, anyName, ops, attach, nAttach, nCalls,
                   forceTail, forceSnap, tabIds, tst, mirrorCalls,
                   callAfterDispose, sdVars, syVars, mdVars>>

\* The set calls of the listener, then the async function of stop, with a
\* Tree Style Tab that acknowledges every call.
StopNext ==
    \/ \E t \in tabIds, s \in ClassNames, v \in BOOLEAN : ListenerSet(t, s, v)
    \/ \E o \in OpIds : QueueOpResume(o)
    \/ \E o \in OpIds : SetNotifyReturns(o, "ack")
    \/ \E o \in OpIds : QueueOpSettle(o)
    \/ call.fn = "none" /\ Clear(NullNames, FALSE)
    \/ StopClearReturns

SpecStop == RaceInit /\ [][StopNext]_vars

\* _queueOp alone, called by set and with a callback that throws.
CallbackNext ==
    \/ \E t \in tabIds, s \in ClassNames : QueueThrowing(t, s)
    \/ \E t \in tabIds, s \in ClassNames, v \in BOOLEAN : Set(t, s, v)
    \/ \E o \in OpIds : QueueOpResume(o)
    \/ \E o \in OpIds, r \in Outcomes : SetNotifyReturns(o, r)
    \/ \E o \in OpIds : QueueOpSettle(o)

SpecCallback == Init /\ [][CallbackNext]_vars

----------------------------------------------------------------------------
(***************************************************************************)
(* The synchronizer: background/tst-custom-state-sync.js.  It keeps one    *)
(* TSTCustomStateCache whose class names are the configured prefix         *)
(* followed by each color, and feeds it the marker changes.  The cache     *)
(* objects it makes are modelled by what the synchronizer uses of them:    *)
(* whether they are disposed and whether they believe some flag present.   *)
(***************************************************************************)
\* The async function that start makes, before it ran, and the one of stop.
\* force: the operation was made by forceNotifyTSTState.
StartOp(clearTSTStates, force) ==
    [kind |-> "start", c |-> 0, clear |-> clearTSTStates, pc |-> "lastOp",
     removing |-> FALSE, force |-> force]
StopOp(c, force) ==
    [kind |-> "stop", c |-> c, clear |-> FALSE, pc |-> "lastOp",
     removing |-> FALSE, force |-> force]

\* new TSTCustomStateCache({ classNames: ... statePrefix + color ... }).
NewSyncCache(statePrefix) ==
    [prefix |-> statePrefix, isDisposed |-> FALSE, believed |-> FALSE,
     started |-> "running"]

\* The module's variables that stop and start assign.
SyncState ==
    [cache |-> syncCache, listener |-> markChangeListener, ops |-> currentOp,
     starting |-> isStarting]

SyncBecomes(s) ==
    /\ syncCache' = s.cache
    /\ markChangeListener' = s.listener
    /\ currentOp' = s.ops
    /\ isStarting' = s.starting

SyncStop_NoTearDown(s, force) ==
    IF s.starting THEN s ELSE [s EXCEPT !.listener = 0, !.cache = 0]

\* stop(), up to the return: the state it leaves.
SyncStop(s, force) ==
    IF s.starting THEN s
    ELSE IF s.cache # 0
    THEN [s EXCEPT !.listener = 0, !.cache = 0,
                   !.ops = Append(@, StopOp(s.cache, force))]
    ELSE [s EXCEPT !.listener = 0]

SyncStart_LosesCall(s, enabled, clearTSTStates, force) ==
    IF ~enabled \/ s.starting \/ s.ops # <<>> THEN s
    ELSE [s EXCEPT !.starting = TRUE,
                   !.ops = Append(@, StartOp(clearTSTStates, force))]

\* start(clearTSTStates), up to the return: the state it leaves.
SyncStart(s, enabled, clearTSTStates, force) ==
    IF ~enabled THEN s
    ELSE IF s.starting THEN s
    ELSE [s EXCEPT !.starting = TRUE,
                   !.ops = Append(@, StartOp(clearTSTStates, force))]

\* setTSTSyncEnabled(value), value already converted by Boolean().
SetTSTSyncEnabled(value) ==
    /\ nSync < MaxSync
    /\ nSync' = nSync + 1
    /\ IF TSTSyncEnabled = value
       THEN UNCHANGED <<TSTSyncEnabled, syncCache, markChangeListener,
                        currentOp, isStarting>>
       ELSE /\ TSTSyncEnabled' = value
            /\ SyncBecomes(IF value
                           THEN SyncStart(SyncState, value, TRUE, FALSE)
                           ELSE SyncStop(SyncState, FALSE))
    /\ UNCHANGED <<tstVars, sdVars, TSTMarkedState, syncCaches, nRemovals,
                   nChanges, lastChange, mdVars>>

\* setTSTMarkedState(value).
SetTSTMarkedState(value) ==
    /\ nSync < MaxSync
    /\ nSync' = nSync + 1
    /\ IF value = NonString
       THEN UNCHANGED <<TSTMarkedState, syncCache, markChangeListener,
                        currentOp, isStarting>>
       ELSE IF value = TSTMarkedState
       THEN UNCHANGED <<TSTMarkedState, syncCache, markChangeListener,
                        currentOp, isStarting>>
       ELSE /\ TSTMarkedState' = value
            /\ SyncBecomes(SyncStart(SyncStop(SyncState, FALSE),
                                     TSTSyncEnabled, TRUE, FALSE))
    /\ UNCHANGED <<tstVars, sdVars, TSTSyncEnabled, syncCaches, nRemovals,
                   nChanges, lastChange, mdVars>>

\* forceNotifyTSTState().
ForceNotifyTSTState ==
    /\ nSync < MaxSync
    /\ nSync' = nSync + 1
    /\ IF syncCache # 0
       THEN SyncBecomes(SyncStart(SyncStop(SyncState, TRUE),
                                  TSTSyncEnabled, FALSE, TRUE))
       ELSE UNCHANGED <<syncCache, markChangeListener, currentOp, isStarting>>
    /\ UNCHANGED <<tstVars, sdVars, TSTSyncEnabled, TSTMarkedState,
                   syncCaches, nRemovals, nChanges, lastChange, mdVars>>

SyncOpIds == 1..Len(currentOp)

SyncLastOpSettled_NoWait(i) == TRUE

\* "await lastOp" of the i-th operation that has not settled: lastOp is the
\* operation made before it, which has settled when none is left before it.
SyncLastOpSettled(i) == i = 1

\* The operations that are left when the i-th one settles.
SyncOpSettles(i) ==
    [j \in 1..(Len(currentOp) - 1) |->
        IF j < i THEN currentOp[j] ELSE currentOp[j + 1]]

\* "if (!markChangeListener) markChangeListener = new EventListener(...)" of
\* the start that made cache c.
ListenerAfterStart(c) ==
    IF markChangeListener = 0 THEN c ELSE markChangeListener

\* The async function of start, from "await lastOp" to its next await.
SyncStartResumes(i) ==
    /\ i \in SyncOpIds
    /\ currentOp[i].kind = "start" /\ currentOp[i].pc = "lastOp"
    /\ SyncLastOpSettled(i)
    /\ isStarting' = FALSE
    /\ IF ~TSTSyncEnabled \/ TSTMarkedState = NoPrefix \/ syncCache # 0
       THEN /\ currentOp' = SyncOpSettles(i)
            /\ UNCHANGED <<syncCache, syncCaches, markChangeListener>>
       ELSE LET c == Len(syncCaches) + 1 IN
            /\ syncCaches' = Append(syncCaches, NewSyncCache(TSTMarkedState))
            /\ syncCache' = c
            /\ IF currentOp[i].clear
               THEN /\ currentOp' = [currentOp EXCEPT ![i].c = c,
                                                      ![i].pc = "query"]
                    /\ UNCHANGED markChangeListener
               ELSE /\ currentOp' = [currentOp EXCEPT ![i].c = c,
                                                      ![i].pc = "marked"]
                    /\ markChangeListener' = ListenerAfterStart(c)
    /\ UNCHANGED <<tstVars, sdVars, TSTSyncEnabled, TSTMarkedState, nSync,
                   nRemovals, nChanges, lastChange, mdVars>>

\* The catch blocks of the async function of start.
SyncStartFails(i) ==
    /\ currentOp' = SyncOpSettles(i)
    /\ syncCaches' = [syncCaches EXCEPT ![currentOp[i].c].started = "failed"]

\* "await browser.tabs.query({})" of the pre-clear returns, and
\* notifyTabStateToTST(all tabs, all class names, false) is called.
SyncQueryReturns(i, ok) ==
    /\ i \in SyncOpIds
    /\ currentOp[i].pc = "query"
    /\ IF ok
       THEN /\ currentOp' = [currentOp EXCEPT ![i].pc = "notify"]
            /\ nRemovals' = nRemovals + 1
            /\ UNCHANGED syncCaches
       ELSE /\ SyncStartFails(i)
            /\ UNCHANGED nRemovals
    /\ UNCHANGED <<tstVars, sdVars, TSTSyncEnabled, TSTMarkedState,
                   syncCache, markChangeListener, isStarting, nSync,
                   nChanges, lastChange, mdVars>>

\* "await notifyTabStateToTST(...)" of the pre-clear returns, the listener is
\* made if there is none, and getMarkedTabIds is called.
SyncPreClearReturns(i, ok) ==
    /\ i \in SyncOpIds
    /\ currentOp[i].pc = "notify"
    /\ IF ok
       THEN /\ currentOp' = [currentOp EXCEPT ![i].pc = "marked"]
            /\ markChangeListener' = ListenerAfterStart(currentOp[i].c)
            /\ UNCHANGED syncCaches
       ELSE /\ SyncStartFails(i)
            /\ UNCHANGED markChangeListener
    /\ UNCHANGED <<tstVars, sdVars, TSTSyncEnabled, TSTMarkedState,
                   syncCache, isStarting, nSync, nRemovals, nChanges,
                   lastChange, mdVars>>

\* "await getMarkedTabIds()" returns: with no tab, with marked tabs whose
\* getTabMark resolves (c.set is called for each), or with a rejection of
\* either.
SyncMarkedReturns(i, r) ==
    /\ i \in SyncOpIds
    /\ currentOp[i].pc = "marked"
    /\ IF r = "none"
       THEN /\ currentOp' = SyncOpSettles(i)
            /\ syncCaches' = [syncCaches EXCEPT ![currentOp[i].c].started = "ok"]
       ELSE IF r = "some"
       THEN /\ currentOp' = [currentOp EXCEPT ![i].pc = "sets"]
            /\ UNCHANGED syncCaches
       ELSE SyncStartFails(i)
    /\ UNCHANGED <<tstVars, sdVars, TSTSyncEnabled, TSTMarkedState,
                   syncCache, markChangeListener, isStarting, nSync,
                   nRemovals, nChanges, lastChange, mdVars>>

\* "await Promise.all(... c.set(tabId, statePrefix + mark, true))" returns;
\* ack: Tree Style Tab acknowledged one of the calls.
SyncSetsReturn(i, ack) ==
    /\ i \in SyncOpIds
    /\ currentOp[i].pc = "sets"
    /\ currentOp' = SyncOpSettles(i)
    /\ syncCaches' = [syncCaches EXCEPT
            ![currentOp[i].c].started = "ok",
            ![currentOp[i].c].believed = @ \/ ack]
    /\ UNCHANGED <<tstVars, sdVars, TSTSyncEnabled, TSTMarkedState,
                   syncCache, markChangeListener, isStarting, nSync,
                   nRemovals, nChanges, lastChange, mdVars>>

\* c.clear() of a cache: it calls set(tabId, state, false) for what it
\* believes present, and a set of a state believed present calls Tree Style
\* Tab.
SyncClearRemoves(c) == ~syncCaches[c].isDisposed /\ syncCaches[c].believed

\* The async function of stop, from "await lastOp" to "await c.clear()".
SyncStopResumes(i) ==
    /\ i \in SyncOpIds
    /\ currentOp[i].kind = "stop" /\ currentOp[i].pc = "lastOp"
    /\ SyncLastOpSettled(i)
    /\ currentOp' = [currentOp EXCEPT
            ![i].pc = "clear",
            ![i].removing = SyncClearRemoves(currentOp[i].c)]
    /\ nRemovals' = nRemovals + IF SyncClearRemoves(currentOp[i].c) THEN 1 ELSE 0
    /\ UNCHANGED <<tstVars, sdVars, TSTSyncEnabled, TSTMarkedState,
                   syncCache, markChangeListener, isStarting, syncCaches,
                   nSync, nChanges, lastChange, mdVars>>

\* "await c.clear()" returns and c.dispose() is called; ack: Tree Style Tab
\* acknowledged the calls of clear.
SyncClearReturns(i, ack) ==
    /\ i \in SyncOpIds
    /\ currentOp[i].pc = "clear"
    /\ currentOp' = SyncOpSettles(i)
    /\ syncCaches' = [syncCaches EXCEPT
            ![currentOp[i].c].isDisposed = TRUE,
            ![currentOp[i].c].believed =
                IF currentOp[i].removing /\ ack THEN FALSE ELSE @]
    /\ UNCHANGED <<tstVars, sdVars, TSTSyncEnabled, TSTMarkedState,
                   syncCache, markChangeListener, isStarting, nSync,
                   nRemovals, nChanges, lastChange, mdVars>>

\* The set calls that the callback of the listener made by the start of
\* cache c makes for newValue: (statePrefix, color, color === newValue).
ListenerSets(c, newValue) ==
    {<<syncCaches[c].prefix, color, color = newValue>> : color \in kCOLORS}

\* onTabTempValueChanged fires with { entryId, key, newValue }.  b: what the
\* cache believes once its set calls are done.
SyncMarkChanged(key, newValue, b) ==
    /\ nSync < MaxSync
    /\ nSync' = nSync + 1
    /\ nChanges' = nChanges + 1
    /\ IF markChangeListener = 0 \/ key # kTAB_DATA_KEY_MARKED
       THEN /\ lastChange' = [NoChange EXCEPT !.key = key, !.value = newValue]
            /\ b = FALSE
            /\ UNCHANGED syncCaches
       ELSE LET c == markChangeListener IN
            /\ lastChange' = [on |-> c, key |-> key, value |-> newValue,
                              sets |-> ListenerSets(c, newValue)]
            /\ IF syncCaches[c].isDisposed
               THEN b = FALSE /\ UNCHANGED syncCaches
               ELSE /\ newValue = NoMark => (b => syncCaches[c].believed)
                    /\ syncCaches' = [syncCaches EXCEPT ![c].believed = b]
    /\ UNCHANGED <<tstVars, sdVars, TSTSyncEnabled, TSTMarkedState,
                   syncCache, markChangeListener, currentOp, isStarting,
                   nRemovals, mdVars>>

SyncSpecInit == TSTInit /\ SDInit /\ objs = <<>> /\ SyncInit /\ MdInit

SyncNext ==
    \/ \E v \in BOOLEAN : SetTSTSyncEnabled(v)
    \/ \E v \in Prefixes \cup {NoPrefix, NonString} : SetTSTMarkedState(v)
    \/ ForceNotifyTSTState
    \/ \E i \in SyncOpIds : SyncStartResumes(i)
    \/ \E i \in SyncOpIds, ok \in BOOLEAN : SyncQueryReturns(i, ok)
    \/ \E i \in SyncOpIds, ok \in BOOLEAN : SyncPreClearReturns(i, ok)
    \/ \E i \in SyncOpIds, r \in {"none", "some", "reject"} :
            SyncMarkedReturns(i, r)
    \/ \E i \in SyncOpIds, ack \in BOOLEAN : SyncSetsReturn(i, ack)
    \/ \E i \in SyncOpIds : SyncStopResumes(i)
    \/ \E i \in SyncOpIds, ack \in BOOLEAN : SyncClearReturns(i, ack)
    \/ \E k \in AllKeys, v \in kCOLORS \cup {NoMark}, b \in BOOLEAN :
            SyncMarkChanged(k, v, b)

\* The synchronizer alone; operations that have not settled go on.
SpecSync ==
    /\ SyncSpecInit
    /\ [][SyncNext]_vars
    /\ WF_vars(\E i \in SyncOpIds : SyncStartResumes(i) \/ SyncStopResumes(i))

----------------------------------------------------------------------------
(***************************************************************************)
(* The marker data: which color the tab is marked with, kept in a cache    *)
(* over browser.sessions while useSessionStorage is true and in a cache    *)
(* that only pretends to store the data while it is false.  The model has  *)
(* one tab, which exists throughout.                                       *)
(***************************************************************************)
\* The state of the marker data as one record, with nothing fired or
\* written yet by the step that begins, and the step that makes the record
\* s the next state.
MdState ==
    [use |-> useSessionStorage, keep |-> timeToKeepCacheInMilliseconds,
     sess |-> sessionDataCache, temp |-> temporaryCache,
     timer |-> sessionTimeout, value |-> tabValue, migr |-> migrations,
     rem |-> removals, nTemp |-> 0, nSess |-> 0, writes |-> 0,
     lastTemp |-> lastTemp]

MdBecomes(s) ==
    /\ useSessionStorage' = s.use
    /\ timeToKeepCacheInMilliseconds' = s.keep
    /\ sessionDataCache' = s.sess
    /\ temporaryCache' = s.temp
    /\ sessionTimeout' = s.timer
    /\ tabValue' = s.value
    /\ migrations' = s.migr
    /\ removals' = s.rem
    /\ tempEvents' = s.nTemp
    /\ sessionEvents' = s.nSess
    /\ storeWrites' = s.writes
    /\ lastTemp' = s.lastTemp

\* SessionDataCache._onEntryChanged is called on the cache c for a change
\* of the key "marked" to v (NoMark: newValue is undefined): the handler is
\* an async function that first waits for the start of the cache.
CacheChanged(c, v) ==
    IF ~c.live THEN c ELSE [c EXCEPT !.pending = Append(@, v)]

\* The handler that waited longest goes on: it returns if the cache has no
\* data for the tab, and otherwise sets or deletes the key.
CacheHandled(c) ==
    IF c.has
    THEN [c EXCEPT !.pending = Tail(@), !.mark = Head(c.pending)]
    ELSE [c EXCEPT !.pending = Tail(@)]

\* SessionDataCache.dispose: the listeners are removed, the storage emptied.
CacheDisposed(c) == NoCache

\* onTabTempValueChanged.fire: the temporary cache listens to it.
FireTemp(s, v) ==
    [s EXCEPT !.temp = CacheChanged(@, v), !.nTemp = @ + 1, !.lastTemp = v]

\* onTabSessionValueChanged.fire: the session cache listens to it.
FireSession(s, v) ==
    [s EXCEPT !.sess = CacheChanged(@, v), !.nSess = @ + 1,
              !.timer = IF @.state = "active" /\ s.sess.live
                        THEN [@ EXCEPT !.touched = TRUE] ELSE @]

\* getCache: the cache of the current mode, made if there is none.  A new
\* temporary cache starts from a copy of the session cache's storage.
GetCache(s) ==
    IF s.use
    THEN IF s.sess.live THEN s
         ELSE [s EXCEPT !.sess = [NoCache EXCEPT !.live = TRUE]]
    ELSE IF s.temp.live THEN s
         ELSE [s EXCEPT !.temp = [NoCache EXCEPT !.live = TRUE,
                                                 !.has = s.sess.has,
                                                 !.mark = s.sess.mark]]

\* migrateTempData up to its await: a marker of the temporary cache that
\* the session cache does not hold is written to browser.sessions (the
\* write is in flight afterwards); a marker of the session cache is fired
\* as a temp event unless the temporary cache has the key.  Reading the key
\* of a tab that the session cache has no data for is a TypeError, which
\* rejects the writes.
TempHasKey(s) == s.temp.live /\ s.temp.has /\ s.temp.mark # NoMark

MigrateNotifies(s) ==
    s.sess.has /\ s.sess.mark # NoMark /\ ~TempHasKey(s)

MigrateWrites(s) ==
    TempHasKey(s) /\ s.sess.has /\ s.sess.mark # s.temp.mark

\* The end of migrateTempData, after its try statement.
MigrateEnd(s) ==
    IF s.temp.live /\ s.use
    THEN [s EXCEPT !.temp = CacheDisposed(@)]
    ELSE s

MigrateTempData(s) ==
    LET written == IF MigrateWrites(s)
                   THEN [s EXCEPT !.migr = Append(@, s.temp.mark)]
                   ELSE s
        fired == IF MigrateNotifies(s)
                 THEN FireTemp(written, s.sess.mark)
                 ELSE written
    IN  IF MigrateWrites(s) THEN fired ELSE MigrateEnd(fired)

\* removeSessionCache up to its await: the temporary cache is made from the
\* session cache if there is none, the session cache is disposed, and the
\* removal of its marker from browser.sessions is in flight.
RemoveSessionCache(s) ==
    IF s.sess.live /\ ~s.use
    THEN LET t == GetCache(s)
         IN  [t EXCEPT !.sess = CacheDisposed(@),
                       !.rem = IF s.sess.has /\ s.sess.mark # NoMark
                               THEN @ + 1 ELSE @]
    ELSE s

\* Timeout (delays.js): dispose stops a timeout that has not fired yet.
TimeoutDisposed_StaysActive(t) == t
TimeoutDisposed(t) ==
    IF t.state = "none" THEN t ELSE [t EXCEPT !.state = "disposed"]

NewTimeout == [state |-> "active", touched |-> FALSE]

\* A call of getTabMark that waits for its cache finds the storage of that
\* cache empty if the cache is disposed meanwhile.
ReaderAfter(s) ==
    IF markCall.pc = "getTabMark" /\ markCall.cache # "gone"
       /\ (IF markCall.cache = "sess"
           THEN sessionDataCache.live /\ ~s.sess.live
           ELSE temporaryCache.live /\ ~s.temp.live)
    THEN [markCall EXCEPT !.cache = "gone"]
    ELSE markCall

\* A step of the module that is no step of createTabMark or removeTabMark.
MdStep(s) ==
    /\ MdBecomes(s)
    /\ markCall' = ReaderAfter(s)
    /\ removedOff' = removedOff

\* A handler that waits for a start promise that has resolved goes on as
\* a microtask: before the next call from outside, timer or answer of the
\* browser is handled.
NoHandlerWaiting ==
    /\ ~(sessionDataCache.started /\ sessionDataCache.pending # <<>>)
    /\ ~(temporaryCache.started /\ temporaryCache.pending # <<>>)

\* setUseSessionStorage(value), value converted with Boolean.
SetUseSessionStorage(value) ==
    /\ NoHandlerWaiting
    /\ nMarks < MaxMarks
    /\ value # useSessionStorage
    /\ LET s0 == [MdState EXCEPT !.use = value,
                                 !.timer = TimeoutDisposed(@)]
       IN  MdStep(IF value
                  THEN IF s0.sess.live THEN MigrateTempData(s0)
                       ELSE GetCache(s0)
                  ELSE IF s0.sess.live
                       THEN IF s0.keep < 0 THEN RemoveSessionCache(s0)
                            ELSE [s0 EXCEPT !.timer = NewTimeout]
                       ELSE s0)
    /\ nMarks' = nMarks + 1
    /\ UNCHANGED <<tstVars, sdVars, syVars>>

\* setTimeToKeepCacheInMilliseconds(value): a timeout that has not fired is
\* replaced by a new one with the same callback.
SetTimeToKeepCacheInMilliseconds(value) ==
    /\ NoHandlerWaiting
    /\ nMarks < MaxMarks
    /\ LET v == IF value < 0 THEN -1 ELSE value
       IN  /\ v # timeToKeepCacheInMilliseconds
           /\ MdStep([MdState EXCEPT
                  !.keep = v,
                  !.timer = IF @.state = "active" THEN NewTimeout ELSE @])
    /\ nMarks' = nMarks + 1
    /\ UNCHANGED <<tstVars, sdVars, syVars>>

\* The period of sessionTimeout has elapsed: its callback is
\* removeSessionCache.
SessionTimeoutFires ==
    /\ NoHandlerWaiting
    /\ sessionTimeout.state = "active"
    /\ MdStep(RemoveSessionCache(
           [MdState EXCEPT !.timer = [@ EXCEPT !.state = "fired"]]))
    /\ UNCHANGED <<nMarks, tstVars, sdVars, syVars>>

\* The start promise of the session cache resolves: the tab's data object
\* was made and its key read from browser.sessions with the getTabData of
\* getCache, which fires a temp event for a truthy value; ok is FALSE if
\* that read failed.  Then the callback that getCache gave to start.then
\* runs migrateTempData.
SessionCacheStarts(ok) ==
    /\ NoHandlerWaiting
    /\ sessionDataCache.live
    /\ ~sessionDataCache.started
    /\ LET v == IF ok THEN tabValue ELSE NoMark
           s0 == [MdState EXCEPT !.sess = [@ EXCEPT !.started = TRUE,
                                                    !.has = TRUE,
                                                    !.mark = v]]
           s1 == IF v # NoMark THEN FireTemp(s0, v) ELSE s0
       IN  MdStep(MigrateTempData(s1))
    /\ UNCHANGED <<nMarks, tstVars, sdVars, syVars>>

\* The start promise of the temporary cache resolves: the tab's data object
\* is the one of the initial storage, or a new one; nothing is read.
TemporaryCacheStarts ==
    /\ NoHandlerWaiting
    /\ temporaryCache.live
    /\ ~temporaryCache.started
    /\ MdStep([MdState EXCEPT
           !.temp = [@ EXCEPT !.started = TRUE, !.has = TRUE]])
    /\ UNCHANGED <<nMarks, tstVars, sdVars, syVars>>

\* A handler of the session cache, or of the temporary cache, that waited
\* for the start of its cache goes on.
SessionCacheHandles ==
    /\ sessionDataCache.started
    /\ sessionDataCache.pending # <<>>
    /\ MdStep([MdState EXCEPT !.sess = CacheHandled(@)])
    /\ UNCHANGED <<nMarks, tstVars, sdVars, syVars>>

TemporaryCacheHandles ==
    /\ temporaryCache.started
    /\ temporaryCache.pending # <<>>
    /\ MdStep([MdState EXCEPT !.temp = CacheHandled(@)])
    /\ UNCHANGED <<nMarks, tstVars, sdVars, syVars>>

\* The setTabValue call of migrateTempData returns: the session event is
\* fired if it succeeded, and migrateTempData ends.
MigrationReturns(ok) ==
    /\ NoHandlerWaiting
    /\ migrations # <<>>
    /\ LET v == Head(migrations)
           s0 == [MdState EXCEPT !.migr = Tail(@)]
           s1 == IF ok THEN FireSession([s0 EXCEPT !.value = v], v) ELSE s0
       IN  MdStep(MigrateEnd(s1))
    /\ UNCHANGED <<nMarks, tstVars, sdVars, syVars>>

\* The removeTabValue call of removeSessionCache returns.
RemovalReturns(ok) ==
    /\ NoHandlerWaiting
    /\ removals > 0
    /\ LET s0 == [MdState EXCEPT !.rem = @ - 1]
       IN  MdStep(IF ok THEN FireSession([s0 EXCEPT !.value = NoMark], NoMark)
                  ELSE s0)
    /\ UNCHANGED <<nMarks, tstVars, sdVars, syVars>>

\* The marker call c settles with the given result.  removeTabMark with an
\* array of tab ids awaits removeTabMark for every id, none of which
\* rejects, and returns true after that.
MarkSettled(c, inner) ==
    [NoMarkCall EXCEPT !.fn = c.fn, !.color = c.color, !.array = c.array,
                       !.inner = inner,
                       !.result = IF c.array THEN "true" ELSE inner]

\* The marker call c fires its events after the write to browser.sessions
\* (if it made one) and settles.
MarkNotifies(s, c, wrote) ==
    LET s1 == IF wrote THEN FireSession([s EXCEPT !.value = c.color], c.color)
              ELSE s
    IN  IF c.notify THEN FireTemp(s1, c.color) ELSE s1

\* A marker was removed by a call that began and ended while
\* useSessionStorage was false, and no marker was made since.
RemovedOffAfter(c, s) ==
    c.fn = "removeTabMark" /\ c.notify /\ ~c.force /\ ~s.use
    /\ c.cache = "temp"

\* The marker call c begins: with forceSetSessionData it writes to
\* browser.sessions at once, otherwise it calls getTabMark, which calls
\* getCache and waits for the data of the tab.
MarkBegins(c) ==
    /\ NoHandlerWaiting
    /\ nMarks < MaxMarks
    /\ markCall.pc = "done"
    /\ nMarks' = nMarks + 1
    /\ removedOff' = (removedOff /\ c.fn = "removeTabMark")
    /\ IF c.force
       THEN /\ MdBecomes([MdState EXCEPT !.writes = @ + 1])
            /\ markCall' = [c EXCEPT !.pc = "write"]
       ELSE /\ MdBecomes(GetCache(MdState))
            /\ markCall' = [c EXCEPT !.pc = "getTabMark",
                               !.cache = IF useSessionStorage THEN "sess"
                                         ELSE "temp"]
    /\ UNCHANGED <<tstVars, sdVars, syVars>>

\* createTabMark(tabId, color, {forceSetSessionData, notifyChange}): a color
\* that is no key of kCOLORS throws inside the try statement, whose catch
\* clause logs the error; the function then returns false.
CreateTabMark_Rejects(color, force, notify) ==
    LET c == [NoMarkCall EXCEPT !.fn = "createTabMark", !.color = color,
                                !.force = force, !.notify = notify]
    IN  IF color \notin kCOLORS
        THEN /\ NoHandlerWaiting
             /\ nMarks < MaxMarks
             /\ markCall.pc = "done"
             /\ nMarks' = nMarks + 1
             /\ markCall' = MarkSettled(c, "rejected")
             /\ MdBecomes(MdState)
             /\ UNCHANGED <<removedOff, tstVars, sdVars, syVars>>
        ELSE MarkBegins(c)

CreateTabMark(color, force, notify) ==
    LET c == [NoMarkCall EXCEPT !.fn = "createTabMark", !.color = color,
                                !.force = force, !.notify = notify]
    IN  IF color \notin kCOLORS
        THEN /\ NoHandlerWaiting
             /\ nMarks < MaxMarks
             /\ markCall.pc = "done"
             /\ nMarks' = nMarks + 1
             /\ markCall' = MarkSettled(c, "false")
             /\ MdBecomes(MdState)
             /\ UNCHANGED <<removedOff, tstVars, sdVars, syVars>>
        ELSE MarkBegins(c)

\* removeTabMark(tabId, {forceSetSessionData, notifyChange}); array says
\* that tabId is an array with the id of the tab.
RemoveTabMark(array, force, notify) ==
    /\ markCall.pc = "done"
    /\ MarkBegins([NoMarkCall EXCEPT !.fn = "removeTabMark", !.array = array,
                                     !.force = force, !.notify = notify])

\* getTabMark returns to the marker call: the value of the key, or null if
\* there is none or if reading it threw.  The call returns true if that is
\* the requested value; it writes to browser.sessions if useSessionStorage
\* is true; otherwise it fires the temp event and returns true.
TabMarkOf(c) ==
    LET d == IF c.cache = "sess" THEN sessionDataCache ELSE temporaryCache
    IN  IF c.cache = "gone" \/ ~d.has THEN NoMark ELSE d.mark

GetTabMarkReturns ==
    /\ markCall.pc = "getTabMark"
    /\ \/ markCall.cache = "gone"
       \/ markCall.cache = "sess" /\ sessionDataCache.started
       \/ markCall.cache = "temp" /\ temporaryCache.started
    /\ IF TabMarkOf(markCall) = markCall.color
       THEN /\ markCall' = MarkSettled(markCall, "true")
            /\ MdBecomes(MdState)
            /\ UNCHANGED removedOff
       ELSE IF useSessionStorage
       THEN /\ markCall' = [markCall EXCEPT !.pc = "write"]
            /\ MdBecomes([MdState EXCEPT !.writes = @ + 1])
            /\ UNCHANGED removedOff
       ELSE /\ markCall' = MarkSettled(markCall, "true")
            /\ MdBecomes(MarkNotifies(MdState, markCall, FALSE))
            /\ removedOff' = RemovedOffAfter(markCall, MdState)
    /\ UNCHANGED <<nMarks, tstVars, sdVars, syVars>>

\* The setTabValue or removeTabValue call of the marker call returns: a
\* failure is caught and logged and the call returns false.
MarkWriteReturns(ok) ==
    /\ NoHandlerWaiting
    /\ markCall.pc = "write"
    /\ IF ok
       THEN /\ markCall' = MarkSettled(markCall, "true")
            /\ MdBecomes(MarkNotifies(MdState, markCall, TRUE))
            /\ removedOff' = RemovedOffAfter(markCall, MdState)
       ELSE /\ markCall' = MarkSettled(markCall, "false")
            /\ MdBecomes(MdState)
            /\ UNCHANGED removedOff
    /\ UNCHANGED <<nMarks, tstVars, sdVars, syVars>>

\* The marker data with a marker from an earlier run of the extension in
\* browser.sessions, or none.
MarksInit ==
    /\ TSTInit /\ SDInit /\ SyncInit
    /\ useSessionStorage = FALSE
    /\ timeToKeepCacheInMilliseconds = KeepDefault
    /\ sessionDataCache = NoCache
    /\ temporaryCache = NoCache
    /\ sessionTimeout = NoTimeout
    /\ tabValue \in OneColor \cup {NoMark}
    /\ markCall = NoMarkCall
    /\ migrations = <<>>
    /\ removals = 0
    /\ tempEvents = 0
    /\ sessionEvents = 0
    /\ storeWrites = 0
    /\ lastTemp = "never"
    /\ nMarks = 0
    /\ removedOff = FALSE

MarksNext ==
    \/ \E v \in BOOLEAN : SetUseSessionStorage(v)
    \/ \E v \in KeepPeriods : SetTimeToKeepCacheInMilliseconds(v)
    \/ SessionTimeoutFires
    \/ \E ok \in BOOLEAN : SessionCacheStarts(ok)
    \/ TemporaryCacheStarts
    \/ SessionCacheHandles
    \/ TemporaryCacheHandles
    \/ \E ok \in BOOLEAN : MigrationReturns(ok)
    \/ \E ok \in BOOLEAN : RemovalReturns(ok)
    \/ \E c \in OneColor \cup {UnknownColor}, f, n \in BOOLEAN :
           CreateTabMark(c, f, n)
    \/ \E a, f, n \in BOOLEAN : RemoveTabMark(a, f, n)
    \/ GetTabMarkReturns
    \/ \E ok \in BOOLEAN : MarkWriteReturns(ok)

SpecMarks == MarksInit /\ [][MarksNext]_vars

----------------------------------------------------------------------------
(***************************************************************************)
(* The reconciliation of start: the cache that start made, with Tree Style *)
(* Tab acknowledging every call, the marker-change listener, and the       *)
(* marker data with useSessionStorage false.  The class names of the cache *)
(* are statePrefix + color: "a" stands for statePrefix + "blue", "b" for   *)
(* statePrefix + "red", and "x" for every other name, such as statePrefix  *)
(* + null.                                                                 *)
(***************************************************************************)
\* Marker-change events in a behaviour of the reconciliation.
MaxChanges == 1

\* statePrefix + color
StateOf(color) ==
    IF color = "blue" THEN "a" ELSE IF color = "red" THEN "b" ELSE "x"

\* The set call of the reconciliation for a tab whose marker getTabMark
\* reported as mark: c.set(tabId, statePrefix + mark, true).
ReconcileSet_Removes(tabId, mark) ==
    [kind |-> "set", tab |-> tabId, state |-> StateOf(mark), value |-> FALSE,
     default |-> "false"]

ReconcileSet(tabId, mark) ==
    [kind |-> "set", tab |-> tabId, state |-> StateOf(mark), value |-> TRUE,
     default |-> "false"]

\* The set calls of the listener's callback for { entryId, newValue }:
\* c.set(entryId, statePrefix + color, color === newValue) for every color.
ListenerRequests(entryId, newValue) ==
    <<[kind |-> "set", tab |-> entryId, state |-> StateOf("blue"),
       value |-> ("blue" = newValue), default |-> "false"],
      [kind |-> "set", tab |-> entryId, state |-> StateOf("red"),
       value |-> ("red" = newValue), default |-> "false"]>>

\* The async function of start at "await getMarkedTabIds()": the new cache
\* is assigned, the pre-clear is done and the listener is made.
ReconcileOp ==
    [kind |-> "start", c |-> 1, clear |-> TRUE, pc |-> "marked",
     removing |-> FALSE, force |-> FALSE, waits |-> 0]

\* The tab that is marked, or not, when start runs.
MarkedTab == 1

ReconcileInit ==
    /\ TSTInUse(ClassNames, FALSE, {}, EmptyCache, [t \in Tabs |-> {}])
    /\ SDInit
    /\ objs = <<>>
    /\ TSTSyncEnabled = TRUE
    /\ TSTMarkedState = "p"
    /\ syncCache = 1
    /\ markChangeListener = 1
    /\ currentOp = <<ReconcileOp>>
    /\ isStarting = FALSE
    /\ syncCaches = <<NewSyncCache("p")>>
    /\ nSync = 0
    /\ nRemovals = 0
    /\ nChanges = 0
    /\ lastChange = NoChange
    /\ useSessionStorage = FALSE
    /\ timeToKeepCacheInMilliseconds = KeepDefault
    /\ sessionDataCache = NoCache
    /\ \E m \in MarkColors \cup {NoMark} :
            temporaryCache = [NoCache EXCEPT !.live = TRUE, !.started = TRUE,
                                             !.has = TRUE, !.mark = m]
    /\ sessionTimeout = NoTimeout
    /\ tabValue = NoMark
    /\ markCall = NoMarkCall
    /\ migrations = <<>>
    /\ removals = 0
    /\ tempEvents = 0
    /\ sessionEvents = 0
    /\ storeWrites = 0
    /\ lastTemp = "never"
    /\ nMarks = 0
    /\ removedOff = FALSE

\* createTabMark or removeTabMark fires onTabTempValueChanged for the tab:
\* the temporary cache's handler begins, and the listener's callback makes
\* its set calls on the cache.
ReconcileMarkChanged(newValue) ==
    /\ NoHandlerWaiting
    /\ nChanges < MaxChanges
    /\ MdBecomes(FireTemp(MdState, newValue))
    /\ LET q == QueueAll(ListenerRequests(MarkedTab, newValue), ops, opsTail)
       IN  /\ ops' = q.ops
           /\ opsTail' = q.tail
    /\ statesCaches' = statesCaches \cup
           {s \in {StateOf(c) : c \in MarkColors} : ~GetCacheIsNull(s)}
    /\ nChanges' = nChanges + 1
    /\ lastChange' = [on |-> markChangeListener, key |-> kTAB_DATA_KEY_MARKED,
                      value |-> newValue,
                      sets |-> {<<TSTMarkedState, c, c = newValue>> :
                                    c \in MarkColors}]
    /\ UNCHANGED <<isDisposed, classNames, anyName, cache, attach, nAttach,
                   call, nCalls, forceTail, forceSnap, tabIds, tst,
                   mirrorCalls, callAfterDispose, sdVars, TSTSyncEnabled,
                   TSTMarkedState, syncCache, markChangeListener, currentOp,
                   isStarting, syncCaches, nSync, nRemovals, markCall, nMarks,
                   removedOff>>

\* The start has run to its end.
ReconcileSettled ==
    /\ currentOp' = <<>>
    /\ syncCaches' = [syncCaches EXCEPT ![1].started = "ok"]

\* "await getMarkedTabIds()" returns the tabs whose key "marked" is truthy
\* in the storage of the cache of getCache; getTabMark is called for each.
\* A handler that began before getMarkedTabIds read the storage is done
\* when getTabMark reads it, four microtasks later: such a handler is taken
\* to be done before both.
ReconcileMarkedReturns ==
    /\ NoHandlerWaiting
    /\ currentOp # <<>>
    /\ currentOp[1].pc = "marked"
    /\ IF temporaryCache.has /\ temporaryCache.mark # NoMark
       THEN /\ currentOp' = [currentOp EXCEPT ![1].pc = "getTabMark"]
            /\ UNCHANGED syncCaches
       ELSE ReconcileSettled
    /\ UNCHANGED <<tstVars, sdVars, TSTSyncEnabled, TSTMarkedState, syncCache,
                   markChangeListener, isStarting, nSync, nRemovals, nChanges,
                   lastChange, mdVars>>

\* "await getTabMark(tabId)" returns and c.set is called with its value.
ReconcileGetTabMarkReturns ==
    /\ currentOp # <<>>
    /\ currentOp[1].pc = "getTabMark"
    /\ LET r == ReconcileSet(MarkedTab,
                    TabMarkOf([NoMarkCall EXCEPT !.cache = "temp"]))
           q == QueueAll(<<r>>, ops, opsTail)
       IN  /\ ops' = q.ops
           /\ opsTail' = q.tail
           /\ statesCaches' = GetCacheCreates(r.state)
    /\ currentOp' = [currentOp EXCEPT ![1].pc = "sets",
                                      ![1].waits = Len(ops) + 1]
    /\ UNCHANGED <<isDisposed, classNames, anyName, cache, attach, nAttach,
                   call, nCalls, forceTail, forceSnap, tabIds, tst,
                   mirrorCalls, callAfterDispose, sdVars, TSTSyncEnabled,
                   TSTMarkedState, syncCache, markChangeListener, isStarting,
                   syncCaches, nSync, nRemovals, nChanges, lastChange,
                   mdVars>>

\* "await Promise.all(...)" of the set calls returns.
ReconcileSetsReturn ==
    /\ currentOp # <<>>
    /\ currentOp[1].pc = "sets"
    /\ ops[currentOp[1].waits].pc = "settled"
    /\ ReconcileSettled
    /\ UNCHANGED <<tstVars, sdVars, TSTSyncEnabled, TSTMarkedState, syncCache,
                   markChangeListener, isStarting, nSync, nRemovals, nChanges,
                   lastChange, mdVars>>

\* Tree Style Tab acknowledges the call of a set: its answer is a message,
\* handled after the microtasks.
ReconcileNotifyReturns(o) ==
    /\ NoHandlerWaiting
    /\ SetNotifyReturns(o, "ack")

ReconcileNext ==
    \/ \E v \in MarkColors \cup {NoMark} : ReconcileMarkChanged(v)
    \/ TemporaryCacheHandles
    \/ ReconcileMarkedReturns
    \/ ReconcileGetTabMarkReturns
    \/ ReconcileSetsReturn
    \/ \E o \in OpIds : QueueOpResume(o)
    \/ \E o \in OpIds : ReconcileNotifyReturns(o)
    \/ \E o \in OpIds : QueueOpSettle(o)

SpecReconcile == ReconcileInit /\ [][ReconcileNext]_vars

----------------------------------------------------------------------------
(***************************************************************************)
(* The claims.                                                             *)
(***************************************************************************)
\* Two calls of set for the same (tabId, state), p made before q.
SameScopeSets(p, q) ==
    /\ p < q
    /\ ops[p].kind = "set" /\ ops[q].kind = "set"
    /\ ops[p].tab = ops[q].tab /\ ops[p].state = ops[q].state

\* p and q are calls of set for the same (tabId, state) with the same value,
\* and no _queueOp call for that (tabId, state) was made between them.
SameSetTwice(p, q) ==
    /\ SameScopeSets(p, q)
    /\ ops[p].value = ops[q].value
    /\ \A r \in OpIds : (p < r /\ r < q) =>
            (ops[r].tab # ops[p].tab \/ ops[r].state # ops[p].state)

\* C1: for the calls of set on one (tabId, state), the calls of
\* notifyTabStateToTST are issued in the order the calls of set were made,
\* and never two are in flight together: when a call of set has issued its
\* call, every earlier call of set for that (tabId, state) has left its
\* callback, and its call, if it issued one, came earlier.
C1_MirrorCallsInOrder ==
    \A p \in OpIds, q \in OpIds :
        (SameScopeSets(p, q) /\ ops[q].callSeq > 0) =>
            /\ ops[p].pc \notin {"awaitLast", "calling"}
            /\ ops[p].callSeq < ops[q].callSeq

\* Two calls of set for one (tabId, state) have both called Tree Style Tab,
\* the second while it is still in flight.
C1_Witness ==
    \E p \in OpIds, q \in OpIds :
        /\ SameScopeSets(p, q)
        /\ ops[p].callSeq = 1 /\ ops[q].callSeq = 2
        /\ ops[q].pc = "calling"

\* C2: set changes the belief for (tabId, state) to the requested value only
\* when notifyTabStateToTST has returned true: the step that issues the call
\* leaves the cache as it is, the step in which the call returns false or
\* throws leaves it as it is and makes set return false, and the step in
\* which it returns true changes the entry of (tabId, state), and nothing
\* else, to the requested value.
C2_BeliefFollowsAck ==
    [][\A o \in OpIds :
          /\ (ops[o].pc = "awaitLast" /\ ops'[o].pc = "calling") => cache' = cache
          /\ (ops[o].pc = "calling" /\ ops'[o].pc # "calling") =>
                IF ops'[o].out = "ack" /\ ~isDisposed
                THEN cache' = [cache EXCEPT ![ops[o].state][ops[o].tab] =
                                                BoolStr(ops[o].value)]
                ELSE /\ cache' = cache
                     /\ (ops'[o].out # "ack" => ops'[o].val = "false")]_vars

\* A call of set whose call failed has settled with the belief it found, which
\* is not the requested one, and another was acknowledged and has recorded
\* the requested value.
C2_Witness ==
    \E o \in OpIds, p \in OpIds :
        /\ ops[o].kind = "set" /\ ops[o].out \in {"nack", "throw"}
        /\ ops[o].pc = "settled"
        /\ ops[o].post = ops[o].pre /\ ops[o].pre # ops[o].value
        /\ ops[p].kind = "set" /\ ops[p].out = "ack"
        /\ ops[p].post = ops[p].value /\ ops[p].pre # ops[p].value

\* C3 as stated: two calls of set(tabId, state, v) with the same v issue at
\* most one call of notifyTabStateToTST in total.
C3_AtMostOneCall ==
    \A p \in OpIds, q \in OpIds :
        SameSetTwice(p, q) => ~(ops[p].callSeq > 0 /\ ops[q].callSeq > 0)

\* C3, amended: the second of two calls of set(tabId, state, v) with the same
\* v issues no call of notifyTabStateToTST when the first short-circuited or
\* had its call acknowledged, and the belief is still what the first left
\* when the second runs.  (When the call of the first failed, the second
\* issues its own.)
C3_SecondSetShortCircuits ==
    \A p \in OpIds, q \in OpIds :
        ( /\ SameSetTwice(p, q)
          /\ ops[p].out \in {"ack", "short"}
          /\ ops[q].how = "ran" => ops[q].pre = ops[p].post ) =>
            /\ ops[q].callSeq = 0
            /\ ops[q].how = "ran" => ops[q].out = "short"

\* The first of two equal calls of set was acknowledged, and the second has
\* settled without a call.
C3_Witness ==
    \E p \in OpIds, q \in OpIds :
        /\ SameSetTwice(p, q)
        /\ ops[p].out = "ack" /\ ops[p].callSeq = 1
        /\ ops[q].out = "short" /\ ops[q].pc = "settled"
        /\ mirrorCalls = 1

\* C4: when the belief for (tabId, state) equals the requested value at the
\* moment the callback of a queued set runs, that step issues no call to Tree
\* Style Tab and leaves the cache as it is, and set resolves to true.
C4_ShortCircuit ==
    [][\A o \in OpIds :
          ( /\ ops[o].kind = "set"
            /\ ops[o].pc = "awaitLast" /\ ops'[o].how = "ran"
            /\ ops[o].value = Get(ops[o].tab, ops[o].state) ) =>
                /\ mirrorCalls' = mirrorCalls
                /\ cache' = cache
                /\ ops'[o].callSeq = 0
                /\ ops'[o].pc = "innerDone"
                /\ ops'[o].val = "true" /\ ~ops'[o].threw]_vars

\* A set(tabId, state, true) found the belief true and has resolved to true.
C4_Witness ==
    \E o \in OpIds :
        /\ ops[o].kind = "set" /\ ops[o].value
        /\ ops[o].out = "short" /\ ops[o].pre
        /\ ops[o].pc = "settled" /\ ops[o].val = "true"

\* No call of set rejects, one whose call failed returns false, and the
\* _queueOp call made next for that (tabId, state) is not skipped: it can
\* resume, and it runs its callback unless the cache was disposed.
C5_FailureIsContained ==
    \A o \in OpIds :
        /\ ops[o].kind = "set" => ~ops[o].threw
        /\ (ops[o].kind = "set" /\ ops[o].out \in {"nack", "throw"}) =>
                ops[o].val = "false"
        /\ ( /\ ops[o].lastOp # 0
             /\ ops[ops[o].lastOp].kind = "set"
             /\ ops[ops[o].lastOp].out \in {"nack", "throw"} ) =>
                /\ LastOpSettled(o) /\ ~LastResultTruthy(o)
                /\ ops[o].how \in {"none", "ran", "skipDisposed"}
                /\ ops[o].how = "skipDisposed" => isDisposed

\* C5: set never rejects; a call of notifyTabStateToTST that throws or
\* returns false makes that set resolve to false; and every call queued
\* behind it still runs and settles: every _queueOp call settles.
C5_SetNeverRejectsNorWedges ==
    /\ []C5_FailureIsContained
    /\ \A o \in 1..MaxWork :
            (o \in OpIds) ~> (o \in OpIds /\ ops[o].pc = "settled")

\* A set queued behind one whose call threw has run its callback and settled.
C5_Witness ==
    \E p \in OpIds, q \in OpIds :
        /\ ops[q].lastOp = p
        /\ ops[p].kind = "set" /\ ops[p].out = "throw" /\ ops[p].val = "false"
        /\ ops[q].kind = "set" /\ ops[q].how = "ran" /\ ops[q].pc = "settled"

\* C6: a disposed TSTCustomStateCache issues no call to Tree Style Tab,
\* neither notifyTabStateToTST nor getTSTTabs: not from a set that was queued,
\* not from _onTabAttached after its delay, not from updateFromTST or
\* forceNotifyTST after an await.
C6_NoMirrorCallAfterDispose == ~callAfterDispose

\* The cache was disposed after it had called Tree Style Tab, and a set that
\* was queued then has ended without running its callback.
C6_Witness ==
    /\ isDisposed
    /\ mirrorCalls > 0
    /\ \E o \in OpIds : ops[o].kind = "set" /\ ops[o].how = "skipDisposed"
                        /\ ops[o].pc = "settled"

\* C9: on a disposed TSTCustomStateCache get returns false and getTabStates
\* and getAffectedTabIds return nothing; a call of set returns false at once;
\* getAfterChanges, clear and forceNotifyTST return false at once (and
\* updateFromTST undefined); none of them rejects, queues an operation that
\* waits, calls Tree Style Tab or records a belief.
C9_DisposedIsInert ==
    /\ [](isDisposed =>
            /\ \A t \in Tabs, s \in AllNames : ~Get(t, s)
            /\ \A t \in Tabs : GetTabStates(t) = {}
            /\ \A s \in AllNames : GetAffectedTabIds(s) = {}
            /\ cache = EmptyCache /\ statesCaches = {})
    /\ [][isDisposed =>
            /\ \A o \in (Len(ops) + 1)..Len(ops') :
                    /\ ops'[o].pc = "settled" /\ ops'[o].val = "false"
                    /\ ~ops'[o].threw /\ ops'[o].callSeq = 0
            /\ nCalls' > nCalls =>
                    /\ call'.pc = "done"
                    /\ call'.result = IF call'.fn = "update" THEN "undef" ELSE "false"
            /\ (nCalls' > nCalls \/ Len(ops') > Len(ops)) =>
                    /\ mirrorCalls' = mirrorCalls
                    /\ cache' = cache /\ statesCaches' = statesCaches]_vars

\* On a disposed cache a set for an allowed name has returned false, and
\* clear has returned false without any operation to wait for.
C9_Witness ==
    /\ isDisposed
    /\ \E o \in OpIds : /\ ops[o].kind = "set" /\ ops[o].state \in classNames
                        /\ ops[o].how = "refused" /\ ops[o].val = "false"
    /\ call.fn = "clear" /\ call.pc = "done" /\ call.result = "false"

\* C7: a disposed SessionDataCache, disposed while _start waits for the
\* entry ids or later, calls getStorageValue no more.
C7_NoFetchAfterDispose == ~fetchAfterDispose

\* C8: once a SessionDataCache is disposed, its _storage is empty in every
\* later state.
C8_StorageStaysEmpty ==
    sdIsDisposed => \A e \in Entries : storage[e] = 0

\* C10: an entry-removed event for e that came before start resolved leaves e
\* absent from _storage once start has resolved and the handlers that waited
\* for it have run (no entry-created event for e having come).
C10_RemovedEarlyIsAbsent ==
    \A e \in removedEarly :
        (start.pc = "done" /\ sdQueue = <<>> /\ e \notin createdSeen) =>
            storage[e] = 0

\* C11: getDataForEntryId never returns a half-hydrated data object: it
\* leaves "await this.start" only when start is resolved; it returns null
\* exactly when _storage then has no data for the entry; and when it returns
\* the data of an entry, start is resolved and no getStorageValue for a
\* monitored key of that data is still in flight.
C11_NeverHalfHydrated ==
    /\ [](reader.pc = "done" =>
            /\ reader.started
            /\ reader.result = "null" => ~reader.known
            /\ reader.result = "data" => (reader.known /\ reader.settled))
    /\ [][(reader.pc = "awaitStart" /\ reader'.pc # "awaitStart") =>
            /\ start.pc = "done"
            /\ (storage[reader.entry] = 0) <=> (reader'.result = "null")]_vars

\* getDataForEntryId has returned the data of an entry whose monitored key
\* was fetched with a value.
C11_Witness ==
    /\ reader.pc = "done" /\ reader.result = "data"
    /\ objs[reader.obj].facts["marked"] # Undef
    /\ objs[reader.obj].hydr = "resolved"

\* C12: a failed getStorageValue is not fatal to the entry: getDataForEntryId
\* does not reject, and no handler of a fact-changed event for the entry ends
\* with an error in place of applying the value.
C12_FetchFailureNotFatal ==
    /\ reader.result # "rejected"
    /\ ~handlerThrew

\* C13: the promise start resolves to a boolean and never rejects: to true
\* when the entry ids were listed and the promise of every listed entry
\* resolved, and to false when the listing failed or a getStorageValue of a
\* listed entry failed.
C13_StartResolvesToBoolean ==
    start.pc = "done" =>
        /\ start.result \in {"true", "false"}
        /\ start.result = "true" <=>
                (start.listed /\ \A o \in start.waits : objs[o].hydr = "resolved")
        /\ start.result = "false" <=>
                (~start.listed \/ \E o \in start.waits : objs[o].hydr = "rejected")

\* start has resolved to false because a getStorageValue of one of two listed
\* entries failed.
C13_Witness ==
    /\ start.pc = "done" /\ start.result = "false"
    /\ start.listed /\ Cardinality(start.waits) = 2
    /\ \E o \in start.waits : objs[o].hydr = "rejected"

\* C14: the data object of every entry has values for monitored keys only,
\* and no data-changed event names another key; the delivery of a
\* fact-changed event for a key that is not monitored (the step that counts
\* an event and makes no handler wait) changes no data object and nothing
\* else of the cache, and fires no data-changed event.
C14_OnlyMonitoredKeys ==
    /\ [](/\ \A o \in ObjIds : \A k \in AllKeys \ MonitoredKeys :
                objs[o].facts[k] = Undef
          /\ lastNotify.key \in MonitoredKeys \cup {Omitted})
    /\ [][(nEvents' = nEvents + 1 /\ sdQueue' = sdQueue /\ reader' = reader) =>
            /\ objs' = objs /\ storage' = storage
            /\ fetches' = fetches /\ sdWaiters' = sdWaiters
            /\ nNotify' = nNotify /\ lastNotify' = lastNotify]_vars

\* Two events were delivered, one at least for a key that is not monitored,
\* which made no handler wait, and a data object holds a value of the
\* monitored key.
C14_Witness ==
    /\ nEvents = 2 /\ Len(sdQueue) + Cardinality(sdWaiters) <= 1
    /\ reader.pc = "idle"
    /\ start.pc = "hydrating"
    /\ \E o \in ObjIds : objs[o].facts["marked"] = "red" /\ objs[o].hydr = "resolved"

\* C15: in a started cache that is not disposed, when the handler of a
\* fact-changed event on a monitored key of a known entry completes, the
\* entry's fact map holds the new value under the key (the key is absent when
\* the value is undefined), and exactly one data-changed event is fired whose
\* details carry the entry id, the key and the new value, the value being
\* omitted only when the fact was deleted.
C15_ChangedStoresAndNotifies ==
    [][\A w \in sdWaiters :
         (/\ sdWaiters' = sdWaiters \ {w}
          /\ ~sdIsDisposed
          /\ start.pc = "done"
          /\ w.key \in MonitoredKeys
          /\ storage[w.entry] = w.obj)
         => /\ objs'[w.obj].facts[w.key] = w.value
            /\ nNotify' = nNotify + 1
            /\ lastNotify' = [entryId |-> w.entry, key |-> w.key,
                              value |-> IF w.value = Undef THEN Omitted
                                        ELSE w.value]]_vars

\* The same statement for the entries whose hydration did not fail: what is
\* left of C15 when the failure of C12 is set aside.
C15_ChangedOfHydratedEntry ==
    [][\A w \in sdWaiters :
         (/\ sdWaiters' = sdWaiters \ {w}
          /\ ~sdIsDisposed
          /\ start.pc = "done"
          /\ w.key \in MonitoredKeys
          /\ storage[w.entry] = w.obj
          /\ objs[w.obj].hydr # "rejected")
         => /\ objs'[w.obj].facts[w.key] = w.value
            /\ nNotify' = nNotify + 1
            /\ lastNotify' = [entryId |-> w.entry, key |-> w.key,
                              value |-> IF w.value = Undef THEN Omitted
                                        ELSE w.value]]_vars

\* The same statement for the values that are truthy or undefined.
C15_ChangedToTruthyOrUndefined ==
    [][\A w \in sdWaiters :
         (/\ sdWaiters' = sdWaiters \ {w}
          /\ ~sdIsDisposed
          /\ start.pc = "done"
          /\ w.key \in MonitoredKeys
          /\ storage[w.entry] = w.obj
          /\ objs[w.obj].hydr # "rejected"
          /\ w.value # FalsyValue)
         => /\ objs'[w.obj].facts[w.key] = w.value
            /\ nNotify' = nNotify + 1
            /\ lastNotify' = [entryId |-> w.entry, key |-> w.key,
                              value |-> IF w.value = Undef THEN Omitted
                                        ELSE w.value]]_vars

\* C16: on a cache of any state name, whatever it believed before (nothing
\* included), when updateFromTST(null, {states: null}) with the default add
\* and remove has got the answer of Tree Style Tab, it completes without an
\* error, and getTabStates(id) is then exactly the states that Tree Style Tab
\* holds for id, for every tab of the answer.
C16_UpdateMirrorsTST ==
    [][(/\ call.fn = "update" /\ call.pc = "getTSTTabs" /\ call'.pc = "done"
        /\ anyName /\ ~isDisposed
        /\ call.names = NullNames /\ call.remove /\ call.add
        /\ call.tabs = tabIds)
       => /\ call'.result = "undef"
          /\ \A t \in call.tabs : GetTabStates(t)' = tst[t]]_vars

\* The same statement for the caches whose _statesCaches has a key when the
\* answer arrives.
C16_UpdateOfUsedCacheMirrorsTST ==
    [][(/\ call.fn = "update" /\ call.pc = "getTSTTabs" /\ call'.pc = "done"
        /\ anyName /\ ~isDisposed
        /\ call.names = NullNames /\ call.remove /\ call.add
        /\ call.tabs = tabIds
        /\ statesCaches # {})
       => /\ call'.result = "undef"
          /\ \A t \in call.tabs : GetTabStates(t)' = tst[t]]_vars

\* C17: on a cache of known state names, when updateFromTST(tabIds, {states,
\* remove, add}) applies the answer of Tree Style Tab, every queried tab is
\* believed to have an affected state that Tree Style Tab holds for it if add
\* is set, is believed not to have an affected state that Tree Style Tab does
\* not hold for it if remove is set, and the belief about every other (tab,
\* state) pair is as before; and a call with add and remove both false
\* returns at once, changing no belief and making no call to Tree Style Tab.
C17_UpdateOfKnownNames ==
    /\ []((call.fn = "update" /\ ~call.remove /\ ~call.add) => call.pc = "done")
    /\ [][(call'.fn = "update" /\ ~call'.remove /\ ~call'.add /\ call' # call)
          => /\ cache' = cache
             /\ statesCaches' = statesCaches
             /\ mirrorCalls' = mirrorCalls]_vars
    /\ [][(/\ call.fn = "update" /\ call.pc = "getTSTTabs" /\ call'.pc = "done"
           /\ ~anyName /\ ~isDisposed)
          => /\ call'.result = "undef"
             /\ \A s \in AllNames, t \in Tabs :
                  IF s \in call.names /\ t \in call.tabs /\ s \in tst[t] /\ call.add
                  THEN Get(t, s)'
                  ELSE IF s \in call.names /\ t \in call.tabs /\ s \notin tst[t]
                          /\ call.remove
                  THEN ~Get(t, s)' /\ cache'[s][t] = Absent
                  ELSE cache'[s][t] = cache[s][t]]_vars

\* updateFromTST(1, {states: "a"}) has completed on a cache of known names:
\* tab 1 is believed to have "a", which Tree Style Tab holds for it, while
\* the beliefs that the call did not cover (tab 2, state "b") still differ
\* from what Tree Style Tab holds.
C17_Witness ==
    /\ call.fn = "update" /\ call.pc = "done" /\ call.result = "undef"
    /\ ~anyName /\ call.names = {"a"} /\ call.tabs = {1}
    /\ call.add /\ call.remove
    /\ "a" \in tst[1] /\ Get(1, "a")
    /\ "a" \notin tst[2] /\ Get(2, "a")
    /\ "b" \notin tst[1] /\ Get(1, "b")

\* C18: a forceNotifyTST with add and remove both set makes, for every
\* affected state, exactly one batched call that adds the state and exactly
\* one that removes it, and no other call to Tree Style Tab: two calls for
\* each affected state, however many tabs are given.  The tabs of the add
\* call are the given tabs that getAfterChanges found to have the state,
\* after the operations queued for them had settled, and the tabs of the
\* remove call are the other given tabs.
C18_TwoBatchedCallsPerState ==
    /\ []((/\ call.fn = "force" /\ call.pc = "done"
           /\ call.result \in {"true", "false"}
           /\ call.add /\ call.remove)
          => \A s \in AllNames :
                /\ s \in call.names => (call.sub[s].rem # "off" /\ call.sub[s].add # "off")
                /\ s \notin call.names => (call.sub[s].rem = "off" /\ call.sub[s].add = "off"))
    /\ [][\A s \in AllNames :
            (/\ call.fn = "force" /\ call.add /\ call.remove /\ nCalls' = nCalls
             /\ call.sub[s].pc = "reading" /\ call'.sub[s].pc = "calling")
            => /\ mirrorCalls' = mirrorCalls + 2
               /\ call'.sub[s].rem = "flying" /\ call'.sub[s].add = "flying"]_vars
    /\ [][(/\ call.fn = "force" /\ call' # call /\ nCalls' = nCalls
           /\ mirrorCalls' # mirrorCalls)
          => \E s \in call.names :
                call.sub[s].pc = "reading" /\ call'.sub[s].pc = "calling"]_vars
    /\ [][\A s \in AllNames :
            (/\ call.fn = "force" /\ nCalls' = nCalls
             /\ call.sub[s].pc \in {"calling", "done"})
            => /\ call'.sub[s].pc \in {"calling", "done"}
               /\ call'.sub[s].has = call.sub[s].has]_vars
    /\ [][\A s \in AllNames, t \in Tabs :
            (/\ call.fn = "force" /\ nCalls' = nCalls
             /\ t \in call.sub[s].todo /\ t \notin call'.sub[s].todo)
            => /\ TailSettled(forceTail[s][t])
               /\ t \in call'.sub[s].has <=> Get(t, s)]_vars
    /\ [][\A s \in AllNames :
            /\ (/\ call.fn = "force" /\ nCalls' = nCalls
                /\ call.sub[s].add = "flying" /\ call'.sub[s].add = "ack")
               => \A t \in Tabs :
                     (s \in tst'[t]) <=> (t \in call.sub[s].has \/ s \in tst[t])
            /\ (/\ call.fn = "force" /\ nCalls' = nCalls
                /\ call.sub[s].rem = "flying" /\ call'.sub[s].rem = "ack")
               => \A t \in Tabs :
                     (s \in tst'[t]) <=>
                        (s \in tst[t] /\ t \notin call.tabs \ call.sub[s].has)]_vars

\* forceNotifyTST(null, {states: null}) has resolved to true on a cache that
\* believes {a: [1], b: [2]}: for each of the two states one add call and
\* one remove call were made, four calls for two tabs and two states.
C18_Witness ==
    /\ call.fn = "force" /\ call.pc = "done" /\ call.result = "true"
    /\ call.add /\ call.remove
    /\ call.names = {"a", "b"} /\ call.tabs = {1, 2}
    /\ call.sub["a"].has = {1} /\ call.sub["b"].has = {2}
    /\ \A s \in call.names : call.sub[s].rem = "ack" /\ call.sub[s].add = "ack"
    /\ mirrorCalls = 4

\* C19: when forceNotifyTST has settled, its result is true only if every
\* batched call that it made, for every affected state, was acknowledged;
\* and if one of its batched calls has failed, its result is false.
C19_ForceResult ==
    (call.fn = "force" /\ call.pc = "done")
    => /\ call.result = "true"
          => \A s \in call.names :
                call.sub[s].rem \in {"ack", "off"} /\ call.sub[s].add \in {"ack", "off"}
       /\ (\E s \in call.names :
              call.sub[s].rem \in {"nack", "throw"} \/ call.sub[s].add \in {"nack", "throw"})
          => call.result = "false"

\* The part of C19 that holds: the result is true only if every batched call
\* was acknowledged, and it is false if a batched call resolved to false
\* and none was rejected.
C19_ForceResultUnlessRejected ==
    (call.fn = "force" /\ call.pc = "done")
    => /\ call.result = "true"
          => \A s \in call.names :
                call.sub[s].rem \in {"ack", "off"} /\ call.sub[s].add \in {"ack", "off"}
       /\ (/\ \E s \in call.names : "nack" \in {call.sub[s].rem, call.sub[s].add}
           /\ \A s \in call.names : "throw" \notin {call.sub[s].rem, call.sub[s].add})
          => call.result = "false"

\* The state is one of the states that clear was given: any state for null,
\* a name of the array, or the name that the string is.
ClearGiven(names, str, state) ==
    IF names = NullNames THEN TRUE
    ELSE IF str THEN names = {state}
    ELSE state \in names

\* C20: clear(states) queues set(tabId, state, false) for exactly the pairs
\* (tabId, state) that are believed present at the time of the call and whose
\* state is one of the given states (any state for null), so that no call to
\* Tree Style Tab is made for another pair; it resolves to true iff each of
\* these removals resolved to true, and then none of the pairs is believed
\* present.
C20_ClearRemovesBelieved ==
    /\ [][(call'.fn = "clear" /\ call'.pc = "awaitOps" /\ nCalls' = nCalls + 1)
          => LET new == (Len(ops) + 1)..Len(ops')
                 pairs == {p \in AllNames \X Tabs :
                             /\ ClearGiven(call'.names, call'.str, p[1])
                             /\ Get(p[2], p[1])}
             IN /\ call'.waits = new
                /\ Cardinality(new) = Cardinality(pairs)
                /\ {<<ops'[o].state, ops'[o].tab>> : o \in new} = pairs
                /\ \A o \in new : ops'[o].kind = "set" /\ ops'[o].value = FALSE
                /\ mirrorCalls' = mirrorCalls]_vars
    /\ [][(call.fn = "clear" /\ call.pc = "awaitOps" /\ call'.pc = "done")
          => /\ call'.result \in {"true", "false"}
             /\ call'.result = "true" <=> \A o \in call.waits : ops[o].val = "true"
             /\ call'.result = "true"
                => \A o \in call.waits : ~Get(ops[o].tab, ops[o].state)']_vars

\* What holds of C20: for the calls of clear that are given null, an array of
\* names, or a string of one character, the removals queued are exactly the
\* ones of the pairs believed present in the given states, the result is
\* true iff each of them resolved to true, and then each pair was believed
\* absent when the callback of its removal ended.
C20_ClearOfArrayOrNull ==
    /\ [][(/\ call'.fn = "clear" /\ call'.pc = "awaitOps" /\ nCalls' = nCalls + 1
           /\ (call'.str => Cardinality(call'.names) = 1))
          => LET new == (Len(ops) + 1)..Len(ops')
                 pairs == {p \in AllNames \X Tabs :
                             /\ ClearGiven(call'.names, call'.str, p[1])
                             /\ Get(p[2], p[1])}
             IN /\ call'.waits = new
                /\ Cardinality(new) = Cardinality(pairs)
                /\ {<<ops'[o].state, ops'[o].tab>> : o \in new} = pairs
                /\ \A o \in new : ops'[o].kind = "set" /\ ops'[o].value = FALSE
                /\ mirrorCalls' = mirrorCalls]_vars
    /\ [][(call.fn = "clear" /\ call.pc = "awaitOps" /\ call'.pc = "done")
          => /\ call'.result \in {"true", "false"}
             /\ call'.result = "true" <=> \A o \in call.waits : ops[o].val = "true"
             /\ call'.result = "true"
                => \A o \in call.waits : ops[o].how = "ran" /\ ~ops[o].post]_vars

\* The calls of notifyTabStateToTST that the handler of the current
\* tab-attached event has made.
AttachCalls == attach.attempt + (IF attach.pc = "calling" THEN 1 ELSE 0)

\* C21: the handler of one tab-attached event makes at most 4 calls to Tree
\* Style Tab, the k-th of them after a wait of 250 * k ms (250, 500, 750,
\* 1000), and it ends: after the 4th call, whatever the outcomes of the
\* calls, or at the first call that throws, the exception being caught.
C21_AttachLoopIsBounded ==
    /\ [](AttachCalls <= 4)
    /\ [][(attach.pc = "delay" /\ attach'.pc = "calling")
          => /\ mirrorCalls' = mirrorCalls + 1
             /\ attach.delay = 250 * AttachCalls'
             /\ AttachCalls' = AttachCalls + 1]_vars
    /\ [][(attach.pc # "idle" /\ nAttach' = nAttach /\ mirrorCalls' # mirrorCalls
           /\ attach' # attach)
          => (attach.pc = "delay" /\ attach'.pc = "calling")]_vars
    /\ (attach.pc \in {"delay", "calling"}) ~> (attach.pc = "done")

\* The handler has ended after its 4th call, made after a wait of 1000 ms,
\* for a tab that is still believed to have a state.
C21_Witness ==
    /\ attach.pc = "done" /\ attach.attempt = 4 /\ attach.delay = 1000
    /\ mirrorCalls = 4
    /\ GetTabStates(attach.tab) # {}

\* C22: when the tab of a tab-attached event is believed to have no state as
\* the event arrives, or as the wait before an attempt ends (the tab was
\* removed, the state was unset or the cache was disposed meanwhile), the
\* handler returns at once, and it makes no call to Tree Style Tab then or
\* later.
C22_AttachExitsWhenNothingBelieved ==
    /\ [][(nAttach' = nAttach + 1 /\ GetTabStates(attach'.tab) = {})
          => (attach'.pc = "done" /\ mirrorCalls' = mirrorCalls)]_vars
    /\ [][(attach.pc = "delay" /\ attach' # attach /\ GetTabStates(attach.tab) = {})
          => (attach'.pc = "done" /\ mirrorCalls' = mirrorCalls
              /\ AttachCalls' = AttachCalls)]_vars
    /\ [][(attach.pc = "done" /\ nAttach' = nAttach)
          => (attach' = attach /\ mirrorCalls' = mirrorCalls)]_vars

\* The handler made one call and returned at the start of its first retry,
\* the tab being believed to have no state any more in a cache that is not
\* disposed.
C22_Witness ==
    /\ attach.pc = "done" /\ attach.attempt = 1 /\ mirrorCalls = 1
    /\ ~isDisposed
    /\ GetTabStates(attach.tab) = {}

\* C23: in a cache made with a list of class names, no state outside the
\* list is ever recorded for a tab or has an entry of _statesCaches, and no
\* call to Tree Style Tab names one: a set of such a state returns false
\* without having called Tree Style Tab, get returns false for it, and the
\* calls of the tab-attached handler and of forceNotifyTST name listed states
\* only.
C23_OnlyAllowedStates ==
    ~anyName =>
        /\ statesCaches \subseteq classNames
        /\ \A s \in AllNames \ classNames :
              /\ \A t \in Tabs : cache[s][t] = Absent /\ ~Get(t, s)
              /\ \A t \in Tabs : s \notin tst[t]
              /\ call.sub[s].rem = "off" /\ call.sub[s].add = "off"
        /\ attach.states \subseteq classNames
        /\ \A o \in OpIds :
              ops[o].state \notin classNames
              => /\ ops[o].pc = "settled" /\ ops[o].how = "refused"
                 /\ ops[o].callSeq = 0 /\ ops[o].out = "none"
                 /\ ops[o].kind = "set" => ops[o].val = "false"

\* A set of the state "x", which is not in the list, has returned false, and
\* a set of a listed state has called Tree Style Tab.
C23_Witness ==
    /\ ~anyName /\ ~isDisposed /\ "x" \notin classNames
    /\ \E o \in OpIds : /\ ops[o].state = "x" /\ ops[o].kind = "set"
                        /\ ops[o].pc = "settled" /\ ops[o].val = "false"
    /\ \E o \in OpIds : ops[o].state \in classNames /\ ops[o].callSeq > 0
    /\ mirrorCalls = 1

\* The operation o was queued behind a tab-removed operation of its scope
\* that had not settled.
BehindRemoved(o) ==
    IF ops[o].lastOp = 0 THEN FALSE ELSE ops[ops[o].lastOp].kind = "removed"

\* C24: an operation queued for a (tabId, state) behind a tab-removed
\* operation that has not settled never runs its callback; when it is a set,
\* it makes no call to Tree Style Tab, changes no belief and returns its
\* default value false.  An operation queued for a (tabId, state) of which
\* every earlier operation has settled waits for none, and runs its callback
\* (unless the cache is disposed).
C24_QueuedBehindRemoval ==
    /\ [](\A o \in OpIds :
            /\ (BehindRemoved(o) /\ ops[o].pc # "awaitLast")
               => /\ ops[o].how \in {"skipLast", "skipDisposed"}
                  /\ ops[o].callSeq = 0 /\ ops[o].out = "none"
                  /\ ops[o].kind = "set" => ops[o].val = "false"
            /\ (BehindRemoved(o) /\ ops[o].pc = "awaitLast")
               => ops[o].callSeq = 0
            /\ (ops[o].lastOp = 0 /\ ops[o].pc \notin {"awaitLast"}
                /\ ops[o].how # "refused")
               => ops[o].how \in {"ran", "skipDisposed"})
    /\ [][\A o \in OpIds :
            (BehindRemoved(o) /\ ops[o].pc = "awaitLast" /\ ops'[o].pc # "awaitLast")
            => /\ cache' = cache
               /\ mirrorCalls' = mirrorCalls
               /\ tst' = tst]_vars
    /\ [][\A o \in (Len(ops) + 1)..Len(ops') :
            (\A p \in OpIds :
                (ops[p].tab = ops'[o].tab /\ ops[p].state = ops'[o].state)
                => ops[p].pc = "settled")
            => ops'[o].lastOp = 0]_vars

\* set(t, s, true) was queued behind a tab-removed operation of (t, s) and
\* has returned false without its callback, in a cache that is not disposed;
\* the removal has run.
C24_Witness ==
    /\ ~isDisposed
    /\ \E o \in OpIds :
          /\ BehindRemoved(o) /\ ops[o].kind = "set" /\ ops[o].value
          /\ ops[o].pc = "settled" /\ ops[o].how = "skipLast"
          /\ ops[o].val = "false"
          /\ ops[ops[o].lastOp].how = "ran"
          /\ ~Get(ops[o].tab, ops[o].state)

\* C25: the exception of a callback that throws is rethrown by the _queueOp
\* call that ran it and by no other; a _queueOp call queued behind that one
\* for the same (tabId, state) runs its callback, after the one before it
\* has ended, and returns its own result; and when the last operation of a
\* (tabId, state) has settled, cache.ops holds no promise for it.
C25_ExceptionStaysWithItsCall ==
    /\ [](\A o \in OpIds :
            /\ ops[o].threw <=> (ops[o].kind = "throws" /\ ops[o].how = "ran")
            /\ (ops[o].lastOp # 0 /\ ops[o].pc # "awaitLast")
               => ops[ops[o].lastOp].res # "pending"
            /\ (/\ ops[o].lastOp # 0 /\ ops[o].pc # "awaitLast"
                /\ ops[ops[o].lastOp].threw)
               => /\ ops[o].how = "ran"
                  /\ (ops[o].kind = "set" /\ ops[o].pc \in {"innerDone", "settled"})
                     => /\ ops[o].out \in {"short", "ack", "nack", "throw"}
                        /\ ops[o].val = BoolStr(ops[o].out \in {"short", "ack"}))
    /\ [](\A s \in AllNames, t \in Tabs :
            (\A o \in OpIds : (ops[o].state = s /\ ops[o].tab = t)
                              => ops[o].pc = "settled")
            => opsTail[s][t] = 0)

\* A callback has thrown and its _queueOp call has rethrown the exception; a
\* set queued behind it has called Tree Style Tab and returned true; no
\* promise is left in cache.ops.
C25_Witness ==
    /\ \E p \in OpIds, q \in OpIds :
          /\ ops[q].lastOp = p
          /\ ops[p].kind = "throws" /\ ops[p].threw /\ ops[p].pc = "settled"
          /\ ops[q].kind = "set" /\ ops[q].out = "ack" /\ ops[q].val = "true"
          /\ ops[q].pc = "settled" /\ ~ops[q].threw
    /\ \A s \in AllNames, t \in Tabs : opsTail[s][t] = 0

\* The synchronizer holds a cache that is not disposed.
SyncLive == syncCache # 0 /\ ~syncCaches[syncCache].isDisposed

\* No start or stop operation is left that has not settled.
SyncSettled == currentOp = <<>> /\ ~isStarting

\* The set calls of the claims for newValue: one per color, on the class name
\* made of the configured prefix, true for the new color only.
ExpectedSets(newValue) ==
    {<<TSTMarkedState, color, color = newValue>> : color \in kCOLORS}

\* C26: whenever the synchronizer holds a live cache whose start has run to
\* its end without an error, a marker-change event for the key "marked"
\* results in one set call per color on that cache: true for prefix + the
\* new color, false for prefix + every other color.
C26_MarkChangeReachesLiveCache ==
    [][(/\ nChanges' # nChanges
        /\ lastChange'.key = kTAB_DATA_KEY_MARKED
        /\ SyncLive
        /\ syncCaches[syncCache].started = "ok")
       => /\ lastChange'.on = syncCache
          /\ lastChange'.sets = ExpectedSets(lastChange'.value)]_vars

\* The operations that are past their "await lastOp" and have not settled.
SyncRunning == {i \in SyncOpIds : currentOp[i].pc # "lastOp"}

\* C27: the async function of a stop calls clear() on its cache only when no
\* operation made before it is left unsettled and no other operation is
\* running; a cache is disposed only by its stop, after that clear() has
\* been awaited, and never while another operation is running.
C27_StopTearsDownInOrder ==
    [][/\ \A i \in SyncOpIds :
            (/\ Len(currentOp') = Len(currentOp)
             /\ currentOp[i].kind = "stop"
             /\ currentOp[i].pc = "lastOp" /\ currentOp'[i].pc = "clear")
            => (i = 1 /\ SyncRunning = {})
       /\ \A c \in 1..Len(syncCaches) :
            (~syncCaches[c].isDisposed /\ syncCaches'[c].isDisposed)
            => /\ SyncRunning = {1}
               /\ currentOp[1].kind = "stop" /\ currentOp[1].c = c
               /\ currentOp[1].pc = "clear"
               /\ syncCache # c]_vars

\* A stop was called while the start that made its cache was running: its
\* operation waits behind that start, and the cache is not disposed.
C27_Witness ==
    /\ Len(currentOp) >= 2
    /\ currentOp[1].kind = "start" /\ currentOp[1].pc \in {"marked", "sets"}
    /\ currentOp[2].kind = "stop" /\ currentOp[2].c = currentOp[1].c
    /\ currentOp[2].pc = "lastOp"
    /\ ~syncCaches[currentOp[1].c].isDisposed

\* C28: at most one start or stop operation is past its "await lastOp" at
\* any time, and at most one cache made by the synchronizer is not disposed.
C28_OneBodyOneCache ==
    /\ Cardinality(SyncRunning) <= 1
    /\ Cardinality({c \in 1..Len(syncCaches) : ~syncCaches[c].isDisposed}) <= 1

\* A second cache has been made and its start is running, with another
\* operation waiting behind it; the first cache is disposed.
C28_Witness ==
    /\ Len(syncCaches) >= 2
    /\ syncCaches[1].isDisposed /\ ~syncCaches[2].isDisposed
    /\ Len(currentOp) >= 2
    /\ SyncRunning = {1}
    /\ currentOp[1].kind = "start" /\ currentOp[1].c = 2

\* C29: once every start and stop operation has settled, the synchronizer
\* holds a cache if and only if sync is enabled and the prefix is not empty;
\* that cache is not disposed and its class names were made from the
\* configured prefix.
C29_SettledMatchesConfiguration ==
    SyncSettled
    => /\ (syncCache # 0) <=> (TSTSyncEnabled /\ TSTMarkedState # NoPrefix)
       /\ syncCache # 0
          => /\ ~syncCaches[syncCache].isDisposed
             /\ syncCaches[syncCache].prefix = TSTMarkedState

\* The prefix was changed after a first cache was made: everything has
\* settled, the first cache is disposed, and the cache held has the new
\* prefix.
C29_Witness ==
    /\ SyncSettled
    /\ Len(syncCaches) >= 2
    /\ syncCaches[1].isDisposed
    /\ syncCaches[1].prefix # TSTMarkedState
    /\ syncCache = 2 /\ syncCaches[2].prefix = TSTMarkedState

\* C30: the stop and the start made by a call of forceNotifyTSTState do not
\* call Tree Style Tab with present = false: no step of theirs, from the
\* call to the end of the restart, issues such a call.
C30_RestartRemovesNothing ==
    [][\A i \in SyncOpIds :
          (/\ currentOp[i].force
           /\ Len(currentOp') = Len(currentOp)
           /\ currentOp'[i].pc # currentOp[i].pc)
          => nRemovals' = nRemovals]_vars

\* A set for the scope of the tab-removed operation r that was issued after
\* r, when nothing was left queued on the scope.
SetAfterDrain(r) ==
    \E q \in OpIds :
        /\ q > r /\ ops[q].kind = "set"
        /\ ops[q].tab = ops[r].tab /\ ops[q].state = ops[r].state
        /\ ops[q].lastOp = 0

\* C34: once the operation that a tab-removed event queued on a scope has
\* settled, and no set for the scope was issued after its queue had
\* drained, the flag is not believed present for the tab (get is false and
\* getTabStates does not list it); neither the event nor the steps of its
\* operations call Tree Style Tab.
C34_RemovedTabHasNoBelief ==
    /\ [](\A r \in OpIds :
            (/\ ops[r].kind = "removed" /\ ops[r].pc = "settled"
             /\ ~SetAfterDrain(r))
            => /\ ~Get(ops[r].tab, ops[r].state)
               /\ ops[r].state \notin GetTabStates(ops[r].tab))
    /\ [][(\/ /\ Len(ops') > Len(ops)
              /\ ops'[Len(ops')].kind = "removed"
           \/ \E o \in OpIds : /\ ops[o].kind = "removed"
                               /\ ops'[o].pc # ops[o].pc)
          => (mirrorCalls' = mirrorCalls /\ tst' = tst)]_vars

\* A set(tabId, state, true) was acknowledged, the tab-removed operation
\* queued behind it has run and settled, and the flag is no longer believed.
C34_Witness ==
    \E p \in OpIds, r \in OpIds :
        /\ ops[p].kind = "set" /\ ops[p].value /\ ops[p].out = "ack"
        /\ ops[r].kind = "removed" /\ ops[r].lastOp = p
        /\ ops[r].how = "ran" /\ ops[r].pc = "settled"
        /\ ~Get(ops[r].tab, ops[r].state)
        /\ ops[r].state \in tst[ops[r].tab]

\* No operation, retry loop or call of Tree Style Tab is under way.
Quiescent ==
    /\ \A o \in OpIds : ops[o].pc = "settled"
    /\ attach.pc \in {"idle", "done"}
    /\ CallIdle

\* C36: with a Tree Style Tab that acknowledges every call, whenever nothing
\* of the cache is under way, the belief of every (tabId, state) the cache
\* has an entry for is the flag that Tree Style Tab holds.
C36_BeliefEqualsMirrorWhenQuiet ==
    (Quiescent /\ ~isDisposed)
    => \A s \in statesCaches, t \in Tabs : Get(t, s) <=> (s \in tst[t])

\* C40: no step of forceNotifyTST changes a belief, whatever the outcome of
\* its batched calls; and when the getAfterChanges of a given tab returns,
\* the operation that was the last of the scope when forceNotifyTST read it
\* has settled, and the tab is put with the tabs that have the state (the
\* add batch) if and only if the belief is true at that moment.
C40_ForcePushesBeliefUnchanged ==
    /\ [][(call' # call /\ call'.fn = "force") => cache' = cache]_vars
    /\ [][\A s \in AllNames, t \in Tabs :
            (/\ call.fn = "force" /\ call'.fn = "force" /\ nCalls' = nCalls
             /\ t \in call.sub[s].todo /\ t \notin call'.sub[s].todo
             /\ ~isDisposed)
            => /\ forceTail[s][t] # 0 => ops[forceTail[s][t]].res # "pending"
               /\ (t \in call'.sub[s].has) <=> Get(t, s)]_vars

\* forceNotifyTST(tab, "a") was called while a set(tab, "a", true) was under
\* way: it has waited for it, put the tab in the add batch, and settled with
\* both batched calls acknowledged; the belief is the one the set left.
C40_Witness ==
    \E t \in Tabs :
        /\ call.fn = "force" /\ call.pc = "done" /\ call.result = "true"
        /\ forceTail["a"][t] # 0
        /\ ops[forceTail["a"][t]].value /\ ops[forceTail["a"][t]].out = "ack"
        /\ t \in call.sub["a"].has
        /\ call.sub["a"].add = "ack"
        /\ Get(t, "a")

\* C35: when the async function of a stop has ended (clear has returned and
\* the cache is disposed), every set call of the cache has settled and Tree
\* Style Tab has acknowledged every call, no tab carries a flag of the
\* stopped cache in Tree Style Tab.
C35_StoppedLeavesNoFlag ==
    (/\ call.fn = "clear" /\ call.pc = "done"
     /\ isDisposed
     /\ \A o \in OpIds : ops[o].pc = "settled")
    => \A t \in Tabs : tst[t] \cap ClassNames = {}



\* C33 as stated: createTabMark with a color that is no key of kCOLORS
\* rejects, so that its caller sees a thrown error and no return value.
C33_UnknownColorRejects ==
    (markCall.fn = "createTabMark" /\ markCall.color \notin kCOLORS
     /\ markCall.pc = "done")
        => markCall.result = "rejected"

\* C33, amended: createTabMark with a color that is no key of kCOLORS
\* resolves to false at once (the error is thrown and caught inside the
\* function); it writes nothing to browser.sessions, fires no event and
\* makes no cache.
C33_UnknownColorReturnsFalse ==
    [][(markCall' # markCall /\ markCall'.fn = "createTabMark"
        /\ markCall'.color \notin kCOLORS)
          => /\ markCall'.pc = "done"
             /\ markCall'.result = "false"
             /\ tempEvents' = 0 /\ sessionEvents' = 0 /\ storeWrites' = 0
             /\ UNCHANGED <<tabValue, sessionDataCache, temporaryCache>>]_vars

C33_Witness ==
    /\ markCall.fn = "createTabMark"
    /\ markCall.color = UnknownColor
    /\ markCall.result = "false"
    /\ lastTemp \in kCOLORS

\* C39: when the write to browser.sessions of createTabMark or removeTabMark
\* fails, the call resolves to false and fires neither the session event
\* nor the temp event; when getTabMark reports the requested marker (none,
\* for a removal) in a call that is not forced, the call resolves to true
\* without a write and without an event.
C39_FailedWriteResolvesFalse ==
    /\ [][(markCall.pc = "write" /\ markCall'.pc = "done"
           /\ markCall'.inner = "false")
             => /\ markCall'.result = "false"
                /\ tempEvents' = 0 /\ sessionEvents' = 0]_vars
    /\ [][(markCall.pc = "getTabMark" /\ markCall'.pc = "done"
           /\ TabMarkOf(markCall) = markCall.color)
             => /\ markCall'.result = "true"
                /\ tempEvents' = 0 /\ sessionEvents' = 0
                /\ storeWrites' = 0
                /\ UNCHANGED tabValue]_vars

\* The marker that getTabMark reports once the cache of the current mode
\* has started, for a tab that the cache has data for.
TabMarkNow ==
    IF useSessionStorage THEN sessionDataCache.mark ELSE temporaryCache.mark

\* C38: a marker that was removed while useSessionStorage was false stays
\* removed after useSessionStorage is set to true again: no temp event
\* reports a color for the tab and getTabMark reports none, until a marker
\* is made again.
C38_RemovedStaysRemoved ==
    (removedOff /\ useSessionStorage /\ NoHandlerWaiting)
        => /\ lastTemp = NoMark
           /\ TabMarkNow = NoMark

\* C32 as stated, the part about a cache that is touched: while the
\* eviction timeout runs, a session cache that an operation has touched (a
\* forced marker write changed its value) is not released.
C32_TouchedIsNotReleased ==
    [][(sessionTimeout.state = "active" /\ sessionTimeout.touched
        /\ sessionDataCache.live)
          => sessionDataCache'.live]_vars

\* C32, amended: the eviction timeout runs only while useSessionStorage is
\* false (setting it to true cancels the timeout); when its period elapses
\* the session cache is disposed, the temporary cache takes over and the
\* removal of the persisted marker is issued, whether or not the cache was
\* used meanwhile; and the session cache is never released in a step that
\* leaves useSessionStorage true.
C32_ReleasedWhenPeriodElapses ==
    /\ [](useSessionStorage => sessionTimeout.state # "active")
    /\ [][(sessionTimeout.state = "active"
           /\ sessionTimeout'.state = "fired")
             => /\ sessionDataCache.live
                /\ ~sessionDataCache'.live
                /\ temporaryCache'.live
                /\ removals' = removals +
                       (IF sessionDataCache.has
                           /\ sessionDataCache.mark # NoMark
                        THEN 1 ELSE 0)]_vars
    /\ [][(sessionDataCache.live /\ ~sessionDataCache'.live)
             => ~useSessionStorage']_vars

C32_Witness ==
    /\ sessionTimeout.state = "fired"
    /\ ~useSessionStorage
    /\ ~sessionDataCache.live
    /\ removals = 0
    /\ tabValue = NoMark
    /\ sessionEvents > 0
    /\ timeToKeepCacheInMilliseconds >= 0

\* C31: when the start settles, Tree Style Tab having acknowledged every
\* call, and no marker-change event came during the start, the new cache
\* believes the class name of prefix + color for the tab that is marked
\* with that color.
C31_StartAssertsMarkedTabs ==
    [][(currentOp # <<>> /\ currentOp' = <<>> /\ nChanges = 0
        /\ temporaryCache.mark # NoMark)
          => /\ ~isDisposed'
             /\ cache'[StateOf(temporaryCache.mark)][MarkedTab] = "true"
             /\ StateOf(temporaryCache.mark) \in tst'[MarkedTab]]_vars

C31_Witness ==
    /\ currentOp = <<>>
    /\ syncCaches[1].started = "ok"
    /\ nChanges = 0
    /\ temporaryCache.mark = "red"
    /\ cache[StateOf("red")][MarkedTab] = "true"

\* C37: while the synchronizer runs and Tree Style Tab acknowledges every
\* call, whenever all queued set calls have settled the tab is believed to
\* carry the class name of the color of the latest marker-change event and
\* no other (none if that event removed the marker), also when the events
\* come during the reconciliation of the start.
C37_BeliefIsLatestColor ==
    (nChanges > 0 /\ \A o \in OpIds : ops[o].pc = "settled")
        => \A s \in ClassNames :
               Get(MarkedTab, s) <=> (s = StateOf(lastChange.value))

====
